---- MODULE Spec2Model ----
(***************************************************************************)
(* Verification model of the document exporter in src/current_main.py:     *)
(* the artifact sanitizer, the inline cleaner, the structural parser and   *)
(* the two renderers (HTML for the PDF page, DOCX).                        *)
(*                                                                         *)
(* Text is a sequence of one-character strings.  The structured content    *)
(* that the parser hands to the renderers is the same kind of text: lines  *)
(* that start with tags such as [HEADING_1], joined by newlines, and the   *)
(* renderers split and re-read it exactly as the code does.                *)
(***************************************************************************)
EXTENDS Integers, Sequences, FiniteSets, TLC

\* ------------------------------------------------------------------------
\* Characters and basic string functions (Python str / re primitives)
\* ------------------------------------------------------------------------
NL == "\n"
\* the backtick and the non-ASCII code points are written by their code point
BT == "u0060"
WS == {" ", "\t", NL, "u00a0"}
Digit == {"0", "1", "2", "3", "4", "5", "6", "7", "8", "9"}
DigitSeq == <<"0", "1", "2", "3", "4", "5", "6", "7", "8", "9">>

\* the exception raised inside a callee, propagated to the caller
Raise == <<"RAISE">>

SetMin(S) == CHOOSE x \in S : \A y \in S : x <= y

StartsWith(s, p) == Len(s) >= Len(p) /\ SubSeq(s, 1, Len(p)) = p
MatchAt(s, p, i) == i >= 1 /\ i + Len(p) - 1 <= Len(s) /\ SubSeq(s, i, i + Len(p) - 1) = p
Contains(s, p) == \E i \in 1..Len(s) : MatchAt(s, p, i)
Drop(s, n) == SubSeq(s, n + 1, Len(s))

RECURSIVE FirstNonWS(_, _)
FirstNonWS(s, i) == IF i > Len(s) \/ s[i] \notin WS THEN i ELSE FirstNonWS(s, i + 1)
RECURSIVE LastNonWS(_, _)
LastNonWS(s, i) == IF i < 1 \/ s[i] \notin WS THEN i ELSE LastNonWS(s, i - 1)
LStrip(s) == SubSeq(s, FirstNonWS(s, 1), Len(s))
RStrip(s) == SubSeq(s, 1, LastNonWS(s, Len(s)))
Strip(s) == LStrip(RStrip(s))

\* str.split(sep) for a one-character separator: always at least one piece
RECURSIVE FirstAt(_, _, _)
FirstAt(s, i, c) == IF i > Len(s) THEN 0 ELSE IF s[i] = c THEN i ELSE FirstAt(s, i + 1, c)
RECURSIVE SplitFrom(_, _, _)
SplitFrom(s, i, c) ==
    LET j == FirstAt(s, i, c)
    IN IF j = 0 THEN <<SubSeq(s, i, Len(s))>>
       ELSE <<SubSeq(s, i, j - 1)>> \o SplitFrom(s, j + 1, c)
Split(s, c) == SplitFrom(s, 1, c)

\* sep.join(parts)
RECURSIVE Join(_, _)
Join(parts, sep) ==
    IF parts = <<>> THEN <<>>
    ELSE IF Len(parts) = 1 THEN parts[1]
    ELSE parts[1] \o sep \o Join(Tail(parts), sep)

\* str.replace(old, new) / re.sub of a literal: leftmost, non-overlapping
RECURSIVE ReplaceAll(_, _, _)
ReplaceAll(s, old, new) ==
    IF s = <<>> THEN <<>>
    ELSE IF MatchAt(s, old, 1) THEN new \o ReplaceAll(Drop(s, Len(old)), old, new)
    ELSE <<s[1]>> \o ReplaceAll(Tail(s), old, new)

\* re.sub(r"[...]", "", s): delete every character of a class
RECURSIVE RemoveChars(_, _)
RemoveChars(s, cls) ==
    IF s = <<>> THEN <<>>
    ELSE (IF s[1] \in cls THEN <<>> ELSE <<s[1]>>) \o RemoveChars(Tail(s), cls)

\* f"{n}" for a non-negative integer
RECURSIVE IntToStr(_)
IntToStr(n) ==
    IF n < 10 THEN <<DigitSeq[n + 1]>>
    ELSE IntToStr(n \div 10) \o <<DigitSeq[(n % 10) + 1]>>

DigitVal(c) == CHOOSE d \in 0..9 : DigitSeq[d + 1] = c

\* int(s) for a non-empty string of decimal digits
RECURSIVE StrToInt(_)
StrToInt(s) ==
    IF Len(s) = 1 THEN DigitVal(s[1])
    ELSE 10 * StrToInt(SubSeq(s, 1, Len(s) - 1)) + DigitVal(s[Len(s)])

\* number of leading characters of s that belong to cls
RECURSIVE LeadFrom(_, _, _)
LeadFrom(s, i, cls) == IF i > Len(s) \/ s[i] \notin cls THEN i - 1 ELSE LeadFrom(s, i + 1, cls)
LeadCount(s, cls) == LeadFrom(s, 1, cls)

\* html.escape(s) with quote=True
RECURSIVE html_escape(_)
html_escape(s) ==
    IF s = <<>> THEN <<>>
    ELSE (CASE s[1] = "&" -> <<"&", "a", "m", "p", ";">>
            [] s[1] = "<" -> <<"&", "l", "t", ";">>
            [] s[1] = ">" -> <<"&", "g", "t", ";">>
            [] s[1] = "\"" -> <<"&", "q", "u", "o", "t", ";">>
            [] s[1] = "'" -> <<"&", "#", "x", "2", "7", ";">>
            [] OTHER -> <<s[1]>>) \o html_escape(Tail(s))

\* ------------------------------------------------------------------------
\* Artifact sanitizer
\* ------------------------------------------------------------------------
ThoughtPrefix == <<"T", "h", "o", "u", "g", "h", "t", " ", "f", "o", "r", " ">>
SecondsSuffix == <<" ", "s", "e", "c", "o", "n", "d", "s", NL>>

\* re.sub(r"^Thought for \d+ seconds\n", "", s): anchored at the start of s
StripThought(s) ==
    IF StartsWith(s, ThoughtPrefix)
    THEN LET rest == Drop(s, Len(ThoughtPrefix))
             n == LeadCount(rest, Digit)
         IN IF n >= 1 /\ MatchAt(rest, SecondsSuffix, n + 1)
            THEN Drop(rest, n + Len(SecondsSuffix))
            ELSE s
    ELSE s

\* the heading search without re.MULTILINE: the start of the text only
FirstHeadingStart_AtStartOnly(s) ==
    IF s # <<>> /\ s[1] = "#" THEN 1 ELSE 0

\* re.search(r"^#+\s*.*$", s, re.MULTILINE): start of the first line whose
\* first character is '#', or 0
FirstHeadingStart(s) ==
    LET idx == {i \in 1..Len(s) : s[i] = "#" /\ (i = 1 \/ s[i - 1] = NL)}
    IN IF idx = {} THEN 0 ELSE SetMin(idx)

\* the look-alike punctuation of the replacements table, in dict order
BlackSquare == <<"u00e2", "u2013", "u00a0">>
\* the table without the soft hyphen
Dashes_NoSoftHyphen == {"u2011", "u2012", "u2013", "u2014"}
Dashes == {"u2011", "u2012", "u00ad", "u2013", "u2014"}
ZeroWidth == {"u200b", "u200c", "u200d", "ufeff"}

RECURSIVE ReplaceChars(_, _, _)
ReplaceChars(s, cls, new) ==
    IF s = <<>> THEN <<>>
    ELSE (IF s[1] \in cls THEN new ELSE <<s[1]>>) \o ReplaceChars(Tail(s), cls, new)

remove_ai_artifacts(text) ==
    LET t1 == StripThought(Strip(text))
        h == FirstHeadingStart(t1)
        t2 == IF h # 0 THEN Drop(t1, h - 1) ELSE t1
        t3 == ReplaceChars(ReplaceAll(t2, BlackSquare, <<"-">>), Dashes, <<"-">>)
        t4 == RemoveChars(t3, ZeroWidth)
    IN Strip(t4)

\* ------------------------------------------------------------------------
\* Inline cleaner
\* ------------------------------------------------------------------------
\* first position j >= from where close starts and s[from..j-1] has no
\* newline (the lazy ".*?" followed by a literal), or 0
LazyEnd(s, from, close) ==
    LET idx == {j \in from..Len(s) :
                   /\ MatchAt(s, close, j)
                   /\ \A k \in from..(j - 1) : s[k] # NL}
    IN IF idx = {} THEN 0 ELSE SetMin(idx)

Stars == <<"*", "*">>
Unders == <<"_", "_">>

\* re.sub(r"\*\*(.*?)\*\*|__(.*?)__", replace_bold, s) from position i on.
\* replace_bold takes match.group(1) or match.group(2): for an empty
\* first group that is None, and len(None) raises TypeError.
RECURSIVE BoldFrom(_, _)
BoldFrom(s, i) ==
    IF i > Len(s) THEN <<>>
    ELSE LET d == IF MatchAt(s, Stars, i) THEN Stars
                  ELSE IF MatchAt(s, Unders, i) THEN Unders ELSE <<>>
             j == IF d = <<>> THEN 0 ELSE LazyEnd(s, i + 2, d)
         IN IF j = 0
            THEN LET rest == BoldFrom(s, i + 1)
                 IN IF rest = Raise THEN Raise ELSE <<s[i]>> \o rest
            ELSE IF d = Stars /\ j = i + 2 THEN Raise
            ELSE LET rest == BoldFrom(s, j + 2)
                 IN IF rest = Raise THEN Raise ELSE SubSeq(s, i + 2, j - 1) \o rest

\* end of the italic match that starts at i with delimiter c, or 0:
\* (?<!c)c([^c\s].*?[^c\s])c(?!c)
ItalicEnd(s, i, c) ==
    IF /\ s[i] = c
       /\ (i = 1 \/ s[i - 1] # c)
       /\ i + 1 <= Len(s)
       /\ s[i + 1] \notin (WS \cup {c})
    THEN LET idx == {k \in (i + 2)..(Len(s) - 1) :
                        /\ s[k] \notin (WS \cup {c})
                        /\ s[k + 1] = c
                        /\ (k + 2 > Len(s) \/ s[k + 2] # c)
                        /\ \A m \in (i + 2)..(k - 1) : s[m] # NL}
         IN IF idx = {} THEN 0 ELSE SetMin(idx) + 1
    ELSE 0

RECURSIVE ItalicFrom(_, _)
ItalicFrom(s, i) ==
    IF i > Len(s) THEN <<>>
    ELSE LET e1 == ItalicEnd(s, i, "*")
             e == IF e1 # 0 THEN e1 ELSE ItalicEnd(s, i, "_")
         IN IF e = 0 THEN <<s[i]>> \o ItalicFrom(s, i + 1)
            ELSE SubSeq(s, i + 1, e - 1) \o ItalicFrom(s, e + 1)

\* re.sub(r"~~(.*?)~~", replace_strike, s)
Tildes == <<"~", "~">>
RECURSIVE StrikeFrom(_, _)
StrikeFrom(s, i) ==
    IF i > Len(s) THEN <<>>
    ELSE LET j == IF MatchAt(s, Tildes, i) THEN LazyEnd(s, i + 2, Tildes) ELSE 0
         IN IF j = 0 THEN <<s[i]>> \o StrikeFrom(s, i + 1)
            ELSE SubSeq(s, i + 2, j - 1) \o StrikeFrom(s, j + 2)

\* first position > i holding character c, or 0
NextChar(s, i, c) == FirstAt(s, i + 1, c)

\* re.sub of a backtick, one or more non-backticks, a backtick (replace_code)
RECURSIVE CodeSpanFrom(_, _)
CodeSpanFrom(s, i) ==
    IF i > Len(s) THEN <<>>
    ELSE LET j == IF s[i] = BT THEN NextChar(s, i, BT) ELSE 0
         IN IF j = 0 \/ j = i + 1 THEN <<s[i]>> \o CodeSpanFrom(s, i + 1)
            ELSE SubSeq(s, i + 1, j - 1) \o CodeSpanFrom(s, j + 1)

\* re.sub(r"\[([^\]]+)\]\(([^)]+)\)", replace_links, s): "text (url)"
RECURSIVE LinksFrom(_, _)
LinksFrom(s, i) ==
    IF i > Len(s) THEN <<>>
    ELSE LET j == IF s[i] = "[" THEN NextChar(s, i, "]") ELSE 0
             k == IF j > i + 1 /\ j + 1 <= Len(s) /\ s[j + 1] = "("
                  THEN NextChar(s, j + 1, ")") ELSE 0
         IN IF k = 0 \/ k = j + 2 THEN <<s[i]>> \o LinksFrom(s, i + 1)
            ELSE SubSeq(s, i + 1, j - 1) \o <<" ", "(">> \o SubSeq(s, j + 2, k - 1)
                 \o <<")">> \o LinksFrom(s, k + 1)

\* re.sub(r"\s+", " ", s)
RECURSIVE CollapseWS(_)
CollapseWS(s) ==
    IF s = <<>> THEN <<>>
    ELSE IF s[1] \in WS THEN <<" ">> \o CollapseWS(Drop(s, LeadCount(s, WS)))
    ELSE <<s[1]>> \o CollapseWS(Tail(s))

\* the cleaner with the whitespace collapsed before the angle brackets are
\* removed instead of after
clean_inline_markdown_CollapseFirst(text) ==
    LET b == BoldFrom(text, 1)
    IN IF b = Raise THEN Raise
       ELSE LET t2 == ItalicFrom(b, 1)
                t3 == StrikeFrom(t2, 1)
                t4 == CodeSpanFrom(t3, 1)
                t5 == LinksFrom(t4, 1)
                t6 == Strip(CollapseWS(t5))
                t7 == RemoveChars(t6, {"<", ">"})
                t8 == ReplaceAll(t7, <<"\\", "*">>, <<"*">>)
            IN ReplaceAll(t8, <<"\\", "_">>, <<"_">>)

clean_inline_markdown(text) ==
    LET b == BoldFrom(text, 1)
    IN IF b = Raise THEN Raise
       ELSE LET t2 == ItalicFrom(b, 1)
                t3 == StrikeFrom(t2, 1)
                t4 == CodeSpanFrom(t3, 1)
                t5 == LinksFrom(t4, 1)
                t6 == RemoveChars(t5, {"<", ">"})
                t7 == ReplaceAll(t6, <<"\\", "*">>, <<"*">>)
                t8 == ReplaceAll(t7, <<"\\", "_">>, <<"_">>)
            IN Strip(CollapseWS(t8))

\* ------------------------------------------------------------------------
\* Structural parser
\* ------------------------------------------------------------------------
Fence == <<BT, BT, BT>>
TagCodeStart == <<"[", "C", "O", "D", "E", "_", "B", "L", "O", "C", "K", "_", "S", "T", "A", "R", "T", "]">>
TagCodeEnd == <<"[", "C", "O", "D", "E", "_", "B", "L", "O", "C", "K", "_", "E", "N", "D", "]">>
TagHeadingPrefix == <<"[", "H", "E", "A", "D", "I", "N", "G", "_">>
TagRule == <<"[", "H", "O", "R", "I", "Z", "O", "N", "T", "A", "L", "_", "R", "U", "L", "E", "]">>
TagListPrefix == <<"[", "L", "I", "S", "T", "_">>
TagBullet == <<"B", "U", "L", "L", "E", "T">>
TagNumbered == <<"N", "U", "M", "B", "E", "R", "E", "D">>
TagBlockquote == <<"[", "B", "L", "O", "C", "K", "Q", "U", "O", "T", "E", "]">>
TagTablePrefix == <<"[", "T", "A", "B", "L", "E", "_">>
TagTableSeparator == <<"[", "T", "A", "B", "L", "E", "_", "S", "E", "P", "A", "R", "A", "T", "O", "R", "]">>
TagTableRow == <<"[", "T", "A", "B", "L", "E", "_", "R", "O", "W", "]">>
TagParagraph == <<"[", "P", "A", "R", "A", "G", "R", "A", "P", "H", "]">>

\* [self._clean_inline_markdown(cell) for cell in cells]; Raise if one raises
RECURSIVE CleanCells(_)
CleanCells(cells) ==
    IF cells = <<>> THEN <<>>
    ELSE LET c == clean_inline_markdown(cells[1])
             rest == CleanCells(Tail(cells))
         IN IF c = Raise \/ rest = Raise THEN Raise ELSE <<c>> \o rest

\* process_table_line without the test for a separator row
process_table_line_NoSeparator(line) ==
    LET raw == Split(line, "|")
        cells == [i \in 1..Len(raw) |-> Strip(raw[i])]
        c1 == IF cells # <<>> /\ cells[1] = <<>> THEN Tail(cells) ELSE cells
        c2 == IF c1 # <<>> /\ c1[Len(c1)] = <<>>
              THEN SubSeq(c1, 1, Len(c1) - 1) ELSE c1
        clean == CleanCells(c2)
    IN IF clean = Raise THEN Raise ELSE TagTableRow \o Join(clean, <<"|">>)

process_table_line(line) ==
    IF Contains(line, <<"-", "-", "-">>) THEN TagTableSeparator
    ELSE LET raw == Split(line, "|")
             cells == [i \in 1..Len(raw) |-> Strip(raw[i])]
             c1 == IF cells # <<>> /\ cells[1] = <<>> THEN Tail(cells) ELSE cells
             c2 == IF c1 # <<>> /\ c1[Len(c1)] = <<>>
                   THEN SubSeq(c1, 1, Len(c1) - 1) ELSE c1
             clean == CleanCells(c2)
         IN IF clean = Raise THEN Raise ELSE TagTableRow \o Join(clean, <<"|">>)

\* the list pattern with \s* in place of \s+ after the marker
ListMatch_NoSpace(line) ==
    LET ind == LeadCount(line, WS)
        rest == Drop(line, ind)
        nd == LeadCount(rest, Digit)
        mlen == IF rest # <<>> /\ rest[1] \in {"*", "+", "-"} THEN 1
                ELSE IF nd >= 1 /\ nd < Len(rest) /\ rest[nd + 1] = "." THEN nd + 1
                ELSE 0
        after == Drop(rest, mlen)
        ws == LeadCount(after, WS)
        sp == IF ws < Len(after) THEN ws ELSE ws - 1
    IN IF mlen = 0 \/ sp < 0 THEN <<>>
       ELSE <<ind, mlen > 1, ind + mlen + sp + 1>>

\* re.match(r"^(\s*)([*+-]|\d+\.)\s+(.+)", line): <<indent length, numbered,
\* start of the content>>, or <<>> when the line is no list item
ListMatch(line) ==
    LET ind == LeadCount(line, WS)
        rest == Drop(line, ind)
        nd == LeadCount(rest, Digit)
        mlen == IF rest # <<>> /\ rest[1] \in {"*", "+", "-"} THEN 1
                ELSE IF nd >= 1 /\ nd < Len(rest) /\ rest[nd + 1] = "." THEN nd + 1
                ELSE 0
        after == Drop(rest, mlen)
        ws == LeadCount(after, WS)
        \* the greedy \s+ gives one character back when (.+) has nothing left
        sp == IF ws < Len(after) THEN ws ELSE ws - 1
    IN IF mlen = 0 \/ sp < 1 THEN <<>>
       ELSE <<ind, mlen > 1, ind + mlen + sp + 1>>

\* the result of _process_markdown_line for a line that is already
\* right-stripped: the tagged line, "" for a blank line, or Raise
process_markdown_line(line) ==
    IF Strip(line) = <<>> THEN <<>>
    ELSE IF line[1] = "#"
    THEN LET level == LeadCount(line, {"#"})
             title == Strip(Drop(line, level))
             clean_title == clean_inline_markdown(title)
         IN IF clean_title = Raise THEN Raise
            ELSE TagHeadingPrefix \o IntToStr(level) \o <<"]">> \o clean_title
    ELSE IF Len(Strip(line)) >= 3 /\ \A i \in 1..Len(Strip(line)) : Strip(line)[i] \in {"-", "*", "_"}
    THEN TagRule
    ELSE IF ListMatch(line) # <<>>
    THEN LET m == ListMatch(line)
             level == m[1] \div 2
             list_type == IF m[2] THEN TagNumbered ELSE TagBullet
             clean_content == clean_inline_markdown(Drop(line, m[3] - 1))
         IN IF clean_content = Raise THEN Raise
            ELSE TagListPrefix \o list_type \o <<"_">> \o IntToStr(level) \o <<"]">> \o clean_content
    ELSE IF line[1] = ">"
    THEN LET quote_text == Drop(line, 1 + LeadCount(Tail(line), WS))
             clean_quote == clean_inline_markdown(quote_text)
         IN IF clean_quote = Raise THEN Raise ELSE TagBlockquote \o clean_quote
    ELSE IF Contains(line, <<"|">>) /\ StartsWith(Strip(line), <<"|">>)
    THEN process_table_line(line)
    ELSE LET clean_line == clean_inline_markdown(line)
         IN IF clean_line = Raise THEN Raise ELSE TagParagraph \o clean_line

\* ------------------------------------------------------------------------
\* Rendered elements.  One record shape for both renderers:
\*   kind  "open" / "close" (list container tags, with tag "ul" or "ol"),
\*         "li", "h", "hr", "bq", "p", "pre", "table", "empty"
\*   level heading level or list level, text the carried text,
\*   rows  the rows of a table, the first one being the header row
\* ------------------------------------------------------------------------
Elem(k) == [kind |-> k, tag |-> "", level |-> 0, text |-> <<>>, italic |-> FALSE, rows |-> <<>>]
TextElem(k, t) == [Elem(k) EXCEPT !.text = t]
Min2(a, b) == IF a < b THEN a ELSE b

\* re.match(r"\[HEADING_(\d+)\](.*)", line): <<level, text>> or <<>>
HeadingMatch(line) ==
    LET rest == Drop(line, Len(TagHeadingPrefix))
        nd == LeadCount(rest, Digit)
    IN IF StartsWith(line, TagHeadingPrefix) /\ nd >= 1 /\ nd < Len(rest) /\ rest[nd + 1] = "]"
       THEN <<StrToInt(SubSeq(rest, 1, nd)), Drop(rest, nd + 1)>>
       ELSE <<>>

\* re.match(r"\[LIST_(BULLET|NUMBERED)_(\d+)\](.*)", line):
\* <<list_type, level, text>> or <<>>
RenderListMatch(line) ==
    LET r0 == Drop(line, Len(TagListPrefix))
        list_type == IF StartsWith(r0, TagBullet) THEN "BULLET"
                     ELSE IF StartsWith(r0, TagNumbered) THEN "NUMBERED" ELSE ""
        r1 == Drop(r0, IF list_type = "BULLET" THEN Len(TagBullet) ELSE Len(TagNumbered))
        r2 == Drop(r1, 1)
        nd == LeadCount(r2, Digit)
    IN IF /\ StartsWith(line, TagListPrefix) /\ list_type # "" /\ StartsWith(r1, <<"_">>)
          /\ nd >= 1 /\ nd < Len(r2) /\ r2[nd + 1] = "]"
       THEN <<list_type, StrToInt(SubSeq(r2, 1, nd)), Drop(r2, nd + 1)>>
       ELSE <<>>

\* ListChanged comparing the list kind only, not the level
ListChanged_KindOnly(cur, cur_level, new, level) == cur # new

\* the condition under which a list item opens a new container
ListChanged(cur, cur_level, new, level) == cur # new \/ level # cur_level

\* ------------------------------------------------------------------------
\* Page renderer (_convert_structured_content_to_html)
\* ------------------------------------------------------------------------
\* the string _finalize_html_table returns: "" for no rows, else one table
\* whose first row is the header
finalize_html_table(table_rows) ==
    IF table_rows = <<>> THEN Elem("empty")
    ELSE [Elem("table") EXCEPT !.rows = table_rows]

HtmlEmit(h, e) == [h EXCEPT !.html_lines = Append(@, e)]

\* HtmlCloseList that emits the closing tag and leaves in_list set
HtmlCloseList_KeepOpen(h) ==
    IF h.in_list # "None"
    THEN HtmlEmit(h, [Elem("close") EXCEPT !.tag = h.in_list])
    ELSE h

\* if in_list: html_lines.append(f"</{in_list}>"); in_list = None
HtmlCloseList(h) ==
    IF h.in_list # "None"
    THEN [HtmlEmit(h, [Elem("close") EXCEPT !.tag = h.in_list]) EXCEPT !.in_list = "None"]
    ELSE h

\* HtmlFlushTable that appends the table and leaves the flag set
HtmlFlushTable_KeepFlag(h) ==
    IF h.in_table
    THEN [HtmlEmit(h, finalize_html_table(h.table_rows)) EXCEPT !.table_rows = <<>>]
    ELSE h

\* if in_table: append the finalized table; in_table = False; table_rows = []
HtmlFlushTable(h) ==
    IF h.in_table
    THEN [HtmlEmit(h, finalize_html_table(h.table_rows)) EXCEPT !.in_table = FALSE, !.table_rows = <<>>]
    ELSE h

\* f"<pre><code>{html.escape(chr(10).join(code_lines))}</code></pre>"
HtmlPre(code_lines) == TextElem("pre", html_escape(Join(code_lines, <<NL>>)))

HtmlCodeStart(h) == [h EXCEPT !.in_code_block = TRUE, !.code_lines = <<>>]

HtmlCodeEnd(h) ==
    [(IF h.code_lines # <<>> THEN HtmlEmit(h, HtmlPre(h.code_lines)) ELSE h)
        EXCEPT !.in_code_block = FALSE, !.code_lines = <<>>]

HtmlHeading(h, line) ==
    LET h1 == HtmlFlushTable(HtmlCloseList(h))
        m == HeadingMatch(line)
    IN IF m # <<>>
       THEN HtmlEmit(h1, [TextElem("h", html_escape(m[2])) EXCEPT !.level = Min2(m[1], 6)])
       ELSE h1

HtmlRule(h) == HtmlEmit(HtmlFlushTable(HtmlCloseList(h)), Elem("hr"))

HtmlListItem(h, line) ==
    LET h1 == HtmlFlushTable(h)
        m == RenderListMatch(line)
        new_list_tag == IF m[1] = "BULLET" THEN "ul" ELSE "ol"
        h2 == IF ListChanged(h1.in_list, h1.list_level, new_list_tag, m[2])
              THEN [HtmlEmit(HtmlCloseList(h1), [Elem("open") EXCEPT !.tag = new_list_tag])
                       EXCEPT !.in_list = new_list_tag, !.list_level = m[2]]
              ELSE h1
    IN IF m # <<>>
       THEN HtmlEmit(h2, [TextElem("li", html_escape(m[3])) EXCEPT !.level = m[2]])
       ELSE h1

HtmlBlockquote(h, line) ==
    HtmlEmit(HtmlFlushTable(HtmlCloseList(h)), TextElem("bq", html_escape(Drop(line, 12))))

\* the cells of a [TABLE_ROW] line as the page renderer stores them
HtmlRowCells(line) ==
    LET cells == Split(Drop(line, 11), "|")
    IN [i \in 1..Len(cells) |-> html_escape(Strip(cells[i]))]

HtmlTableLine(h, line) ==
    LET h1 == HtmlCloseList(h)
    IN IF line = TagTableSeparator THEN h1
       ELSE IF StartsWith(line, TagTableRow)
       THEN [h1 EXCEPT !.in_table = TRUE,
                       !.table_rows = Append(IF h1.in_table THEN @ ELSE <<>>, HtmlRowCells(line))]
       ELSE h1

HtmlParagraph(h, line) ==
    LET h1 == HtmlFlushTable(HtmlCloseList(h))
        text == Drop(line, 11)
    IN IF Strip(text) # <<>> THEN HtmlEmit(h1, TextElem("p", html_escape(text))) ELSE h1

\* one iteration of the loop over lines
HtmlLineStep(h, line) ==
    IF line = TagCodeStart THEN HtmlCodeStart(h)
    ELSE IF line = TagCodeEnd THEN HtmlCodeEnd(h)
    ELSE IF h.in_code_block THEN [h EXCEPT !.code_lines = Append(@, line)]
    ELSE IF StartsWith(line, TagHeadingPrefix) THEN HtmlHeading(h, line)
    ELSE IF line = TagRule THEN HtmlRule(h)
    ELSE IF StartsWith(line, TagListPrefix) THEN HtmlListItem(h, line)
    ELSE IF StartsWith(line, TagBlockquote) THEN HtmlBlockquote(h, line)
    ELSE IF StartsWith(line, TagTablePrefix) THEN HtmlTableLine(h, line)
    ELSE IF StartsWith(line, TagParagraph) THEN HtmlParagraph(h, line)
    ELSE h

\* "Close any remaining open tags" after the loop
HtmlFinish(h) ==
    LET h1 == HtmlFlushTable(HtmlCloseList(h))
    IN IF h1.in_code_block /\ h1.code_lines # <<>>
       THEN HtmlEmit(h1, HtmlPre(h1.code_lines))
       ELSE h1

\* ------------------------------------------------------------------------
\* Document renderer (_add_structured_content_to_docx)
\* ------------------------------------------------------------------------
\* a row of the generated table: the cells of row_data that fit into the
\* num_cols columns, the other cells of the table row left empty
DocxRow(row_data, num_cols) ==
    [c \in 1..num_cols |-> IF c <= Len(row_data) THEN Strip(row_data[c]) ELSE <<>>]

DocxEmit(d, e) == [d EXCEPT !.doc = Append(@, e)]

\* _finalize_docx_table: nothing for no rows or no columns, else one table
\* with the first row as header and one added row per later row
finalize_docx_table(d, table_rows) ==
    IF table_rows = <<>> THEN d
    ELSE LET num_cols == Len(table_rows[1])
         IN IF num_cols = 0 THEN d
            ELSE DocxEmit(d, [Elem("table") EXCEPT
                     !.rows = [r \in 1..Len(table_rows) |-> DocxRow(table_rows[r], num_cols)]])

\* if current_list_type: current_list_type = None
DocxCloseList(d) == [d EXCEPT !.current_list_type = "None"]

\* if in_table: finalize the table; in_table = False; table_rows = []
DocxFlushTable(d) ==
    IF d.in_table
    THEN [finalize_docx_table(d, d.table_rows) EXCEPT !.in_table = FALSE, !.table_rows = <<>>]
    ELSE d

\* _add_code_block_to_docx(doc, "\n".join(code_lines))
DocxCode(code_lines) == TextElem("pre", Join(code_lines, <<NL>>))

DocxCodeStart(d) == [d EXCEPT !.in_code_block = TRUE, !.code_lines = <<>>]

DocxCodeEnd(d) ==
    [(IF d.code_lines # <<>> THEN DocxEmit(d, DocxCode(d.code_lines)) ELSE d)
        EXCEPT !.in_code_block = FALSE, !.code_lines = <<>>]

\* DocxHeading that passes the parsed level on as it is
DocxHeading_Unclamped(d, line) ==
    LET d1 == DocxFlushTable(DocxCloseList(d))
        m == HeadingMatch(line)
    IN IF m # <<>>
       THEN DocxEmit(d1, [TextElem("h", Strip(m[2])) EXCEPT !.level = m[1]])
       ELSE d1

\* _add_heading_to_docx: doc.add_heading(level=min(level, 6)), text.strip()
DocxHeading(d, line) ==
    LET d1 == DocxFlushTable(DocxCloseList(d))
        m == HeadingMatch(line)
    IN IF m # <<>>
       THEN DocxEmit(d1, [TextElem("h", Strip(m[2])) EXCEPT !.level = Min2(m[1], 6)])
       ELSE d1

DocxRule(d) == DocxEmit(DocxFlushTable(DocxCloseList(d)), Elem("hr"))

\* DocxListItem that does not flush the pending table first
DocxListItem_NoFlush(d, line) ==
    LET m == RenderListMatch(line)
        d2 == IF ListChanged(d.current_list_type, d.list_level, m[1], m[2])
              THEN [d EXCEPT !.current_list_type = m[1], !.list_level = m[2]]
              ELSE d
    IN IF m # <<>>
       THEN DocxEmit(d2, [TextElem("li", Strip(m[3])) EXCEPT
                             !.level = m[2],
                             !.tag = IF m[1] = "NUMBERED" THEN "ol" ELSE "ul"])
       ELSE d

\* _add_list_item_to_docx(doc, text, is_numbered, level)
DocxListItem(d, line) ==
    LET d1 == DocxFlushTable(d)
        m == RenderListMatch(line)
        d2 == IF ListChanged(d1.current_list_type, d1.list_level, m[1], m[2])
              THEN [d1 EXCEPT !.current_list_type = m[1], !.list_level = m[2]]
              ELSE d1
    IN IF m # <<>>
       THEN DocxEmit(d2, [TextElem("li", Strip(m[3])) EXCEPT
                             !.level = m[2],
                             !.tag = IF m[1] = "NUMBERED" THEN "ol" ELSE "ul"])
       ELSE d1

DocxBlockquote(d, line) ==
    DocxEmit(DocxFlushTable(DocxCloseList(d)), TextElem("bq", Strip(Drop(line, 12))))

\* the cells of a [TABLE_ROW] line as the document renderer stores them
DocxRowCells(line) ==
    LET cells == Split(Drop(line, 11), "|")
    IN [i \in 1..Len(cells) |-> Strip(cells[i])]

DocxTableLine(d, line) ==
    LET d1 == DocxCloseList(d)
    IN IF line = TagTableSeparator THEN d1
       ELSE IF StartsWith(line, TagTableRow)
       THEN [d1 EXCEPT !.in_table = TRUE,
                       !.table_rows = Append(IF d1.in_table THEN @ ELSE <<>>, DocxRowCells(line))]
       ELSE d1

\* _add_clean_paragraph_to_docx: text wrapped in one pair of underscores is
\* unwrapped and set italic
add_clean_paragraph_to_docx(text) ==
    LET clean_text == Strip(text)
    IN IF clean_text # <<>> /\ clean_text[1] = "_" /\ clean_text[Len(clean_text)] = "_"
          /\ Len(clean_text) > 2
       THEN [TextElem("p", SubSeq(clean_text, 2, Len(clean_text) - 1)) EXCEPT !.italic = TRUE]
       ELSE TextElem("p", clean_text)

DocxParagraph(d, line) ==
    LET d1 == DocxFlushTable(DocxCloseList(d))
        text == Drop(line, 11)
    IN IF Strip(text) # <<>> THEN DocxEmit(d1, add_clean_paragraph_to_docx(text)) ELSE d1

\* one iteration of the loop over lines
DocxLineStep(d, line) ==
    IF line = TagCodeStart THEN DocxCodeStart(d)
    ELSE IF line = TagCodeEnd THEN DocxCodeEnd(d)
    ELSE IF d.in_code_block THEN [d EXCEPT !.code_lines = Append(@, line)]
    ELSE IF StartsWith(line, TagHeadingPrefix) THEN DocxHeading(d, line)
    ELSE IF line = TagRule THEN DocxRule(d)
    ELSE IF StartsWith(line, TagListPrefix) THEN DocxListItem(d, line)
    ELSE IF StartsWith(line, TagBlockquote) THEN DocxBlockquote(d, line)
    ELSE IF StartsWith(line, TagTablePrefix) THEN DocxTableLine(d, line)
    ELSE IF StartsWith(line, TagParagraph) THEN DocxParagraph(d, line)
    ELSE d

\* "Close any remaining open elements" after the loop
DocxFinish(d) ==
    LET d1 == DocxFlushTable(d)
    IN IF d1.in_code_block /\ d1.code_lines # <<>>
       THEN DocxEmit(d1, DocxCode(d1.code_lines))
       ELSE d1

\* ------------------------------------------------------------------------
\* The conversion as a state machine
\* ------------------------------------------------------------------------
MaxLines == 3

L_Heading == <<"#", " ", "T">>
L_Bullet == <<"-", " ", "a">>
L_Nested == <<" ", " ", "-", " ", "b">>
L_Numbered == <<"1", ".", " ", "c">>
L_Row == <<"|", "A", "|", "&", "|">>
L_Separator == <<"|", "-", "-", "-", "|">>
L_Blank == <<>>
L_Fence == Fence
L_Text == <<"x", " ">>
L_Quote == <<">", " ", "q">>
L_Rule == <<"-", "-", "-">>
L_EmptyBold == <<"a", "*", "*", "*", "*">>
L_StartTag == TagCodeStart

InputLines == {L_Heading, L_Bullet, L_Nested, L_Numbered, L_Row, L_Separator, L_Blank,
               L_Fence, L_Text, L_Quote, L_Rule, L_EmptyBold, L_StartTag}

\* the source lines of an input, and the inputs: 1..MaxLines lines
LineSeqs == UNION {[1..n -> InputLines] : n \in 1..MaxLines}
Inputs == {Join(ls, <<NL>>) : ls \in LineSeqs}

VARIABLES pc, raw, sanitized_text, line_no, structured_lines, in_code_block,
          code_block_content, content, html, docx

\* the local text of a function run on its own (the sanitizer, the inline
\* cleaner), and what the cleaner returned for it and for its own result
VARIABLES text, cleaned, cleaned_twice

\* the frames of the conversions in progress on one Action instance
VARIABLES calls

\* TemplateManager: the metadata dictionary in insertion order, the template
\* files and the metadata file in the storage directory, and the last call
\* with what it returned
VARIABLES _metadata, files, metadata_file, returned

\* a line handed to _process_markdown_line on its own, and the line it returned
VARIABLES original_line, tagged_line

\* the TemplateManager instances that share the storage directory of
\* metadata_file and files, each with its own _metadata
VARIABLES instances

\* PDFGenerator: the font mapping the instance keeps, and the last
\* generate_pdf call with the fonts its styles were given
VARIABLES _registered_fonts, generated

cleaner_vars == <<text, cleaned, cleaned_twice>>
manager_vars == <<_metadata, files, metadata_file, returned>>
classifier_vars == <<original_line, tagged_line>>
pdf_vars == <<_registered_fonts, generated>>
unit_vars == <<classifier_vars, instances, pdf_vars>>
other_vars == <<cleaner_vars, calls, manager_vars, unit_vars>>
conversion_vars == <<raw, sanitized_text, line_no, structured_lines, in_code_block,
                     code_block_content, content, html, docx>>

vars == <<pc, conversion_vars, other_vars>>

\* the variables of the parts that are not running
CleanerIdle == text = <<>> /\ cleaned = <<>> /\ cleaned_twice = <<>>
CallsIdle == calls = <<>>
ManagerIdle == _metadata = <<>> /\ files = {} /\ metadata_file = <<>> /\ returned = <<>>
ClassifierIdle == original_line = <<>> /\ tagged_line = <<>>
InstancesIdle == instances = <<>>
PdfIdle == _registered_fonts = <<>> /\ generated = <<>>
UnitsIdle == ClassifierIdle /\ InstancesIdle /\ PdfIdle

\* the locals of the two renderers before their loops start
HtmlInit == [pc |-> "idle", i |-> 1, html_lines |-> <<>>, in_list |-> "None", list_level |-> -1,
             in_table |-> FALSE, table_rows |-> <<>>, in_code_block |-> FALSE, code_lines |-> <<>>]
DocxInit == [pc |-> "idle", i |-> 1, doc |-> <<>>, current_list_type |-> "None", list_level |-> -1,
             in_table |-> FALSE, table_rows |-> <<>>, in_code_block |-> FALSE, code_lines |-> <<>>]

Init ==
    /\ raw \in Inputs
    /\ pc = "sanitize"
    /\ sanitized_text = <<>>
    /\ line_no = 1
    /\ structured_lines = <<>>
    /\ in_code_block = FALSE
    /\ code_block_content = <<>>
    /\ content = <<>>
    /\ html = HtmlInit
    /\ docx = DocxInit
    /\ CleanerIdle /\ CallsIdle /\ ManagerIdle /\ UnitsIdle

\* _sanitize_and_parse_markdown, step 1
Sanitize ==
    /\ pc = "sanitize"
    /\ sanitized_text' = remove_ai_artifacts(raw)
    /\ pc' = "parse"
    /\ UNCHANGED <<raw, line_no, structured_lines, in_code_block, code_block_content,
                   content, html, docx>>
    /\ UNCHANGED other_vars

\* lines = text.split("\n")
ParserLines == Split(sanitized_text, NL)

\* one iteration of the loop of _parse_markdown_structure
ParseLine ==
    /\ pc = "parse"
    /\ line_no <= Len(ParserLines)
    /\ LET line == RStrip(ParserLines[line_no])
           processed_line == process_markdown_line(line)
       IN IF StartsWith(line, Fence)
          THEN /\ structured_lines' =
                    IF in_code_block /\ code_block_content # <<>>
                    THEN structured_lines \o <<TagCodeStart>> \o code_block_content \o <<TagCodeEnd>>
                    ELSE structured_lines
               /\ code_block_content' = IF in_code_block THEN <<>> ELSE code_block_content
               /\ in_code_block' = ~in_code_block
               /\ pc' = pc
          ELSE IF in_code_block
          THEN /\ code_block_content' = Append(code_block_content, line)
               /\ UNCHANGED <<structured_lines, in_code_block, pc>>
          ELSE IF processed_line = Raise
          THEN /\ pc' = "raised"
               /\ UNCHANGED <<structured_lines, in_code_block, code_block_content>>
          ELSE /\ structured_lines' = Append(structured_lines, processed_line)
               /\ UNCHANGED <<in_code_block, code_block_content, pc>>
    /\ line_no' = line_no + 1
    /\ UNCHANGED <<raw, sanitized_text, content, html, docx>>
    /\ UNCHANGED other_vars

\* after the loop: the unclosed code block, and the joined result
ParseEnd ==
    /\ pc = "parse"
    /\ line_no > Len(ParserLines)
    /\ structured_lines' =
          IF in_code_block /\ code_block_content # <<>>
          THEN structured_lines \o <<TagCodeStart>> \o code_block_content \o <<TagCodeEnd>>
          ELSE structured_lines
    /\ content' = Join(structured_lines', <<NL>>)
    /\ pc' = "render"
    /\ UNCHANGED <<raw, sanitized_text, line_no, in_code_block, code_block_content, html, docx>>
    /\ UNCHANGED other_vars

\* lines = content.strip().split("\n") in both renderers
RenderLines == Split(Strip(content), NL)

\* The two renderers share no variable, so the order in which their loop
\* iterations are taken does not change what either computes; they are
\* stepped over the same block one after the other, the page renderer first.
HtmlLine ==
    /\ pc = "render"
    /\ html.pc # "done"
    /\ html.i = docx.i
    /\ html.i <= Len(RenderLines)
    /\ html' = [HtmlLineStep(html, RenderLines[html.i]) EXCEPT !.pc = "loop", !.i = html.i + 1]
    /\ UNCHANGED <<pc, raw, sanitized_text, line_no, structured_lines, in_code_block,
                   code_block_content, content, docx>>
    /\ UNCHANGED other_vars

HtmlEnd ==
    /\ pc = "render"
    /\ html.pc # "done"
    /\ html.i = docx.i
    /\ html.i > Len(RenderLines)
    /\ html' = [HtmlFinish(html) EXCEPT !.pc = "done"]
    /\ UNCHANGED <<pc, raw, sanitized_text, line_no, structured_lines, in_code_block,
                   code_block_content, content, docx>>
    /\ UNCHANGED other_vars

DocxLine ==
    /\ pc = "render"
    /\ docx.pc # "done"
    /\ docx.i < html.i
    /\ docx.i <= Len(RenderLines)
    /\ docx' = [DocxLineStep(docx, RenderLines[docx.i]) EXCEPT !.pc = "loop", !.i = docx.i + 1]
    /\ UNCHANGED <<pc, raw, sanitized_text, line_no, structured_lines, in_code_block,
                   code_block_content, content, html>>
    /\ UNCHANGED other_vars

DocxEnd ==
    /\ pc = "render"
    /\ docx.pc # "done"
    /\ html.pc = "done"
    /\ docx.i > Len(RenderLines)
    /\ docx' = [DocxFinish(docx) EXCEPT !.pc = "done"]
    /\ UNCHANGED <<pc, raw, sanitized_text, line_no, structured_lines, in_code_block,
                   code_block_content, content, html>>
    /\ UNCHANGED other_vars

Next == Sanitize \/ ParseLine \/ ParseEnd \/ HtmlLine \/ HtmlEnd \/ DocxLine \/ DocxEnd

Spec == Init /\ [][Next]_vars

TypeOK ==
    /\ pc \in {"sanitize", "parse", "render", "raised", "clean", "clean_again", "cleaned",
              "strip_thought", "find_heading", "replacements", "zero_width", "return",
              "sanitized", "manager", "calls", "classify", "classified", "instances", "pdf"}
    /\ html.pc \in {"idle", "loop", "done"}
    /\ docx.pc \in {"idle", "loop", "done"}
    /\ html.in_list \in {"None", "ul", "ol"}

\* ------------------------------------------------------------------------
\* Properties
\* ------------------------------------------------------------------------
RenderersDone == html.pc = "done" /\ docx.pc = "done"
BlockKinds == {"h", "hr", "bq", "p"}
OfKind(es, k) == SelectSeq(es, LAMBDA e : e.kind = k)

\* C1: sanitize-then-parse returns a block sequence for every input; no
\* input makes the sanitizer, the parser or the inline cleaner raise.
C1_Totality == pc # "raised"

\* the non-empty groups of source lines strictly between an opening fence
\* and its closing fence, or the end of the input when the fence stays open
RECURSIVE FencedFrom(_, _, _, _)
FencedFrom(ls, i, inside, cur) ==
    IF i > Len(ls) THEN (IF inside /\ cur # <<>> THEN <<cur>> ELSE <<>>)
    ELSE IF StartsWith(ls[i], Fence)
    THEN (IF inside /\ cur # <<>> THEN <<cur>> ELSE <<>>) \o FencedFrom(ls, i + 1, ~inside, <<>>)
    ELSE FencedFrom(ls, i + 1, inside, IF inside THEN Append(cur, ls[i]) ELSE cur)
FencedBlocks == FencedFrom(ParserLines, 1, FALSE, <<>>)

\* C2: the lines between the fences reach the code blocks of both renderers
\* unchanged and in order: the rendered code blocks hold exactly those
\* lines, after HTML escaping only in the page renderer.
C2_CodeVerbatim ==
    RenderersDone =>
        /\ OfKind(html.html_lines, "pre") =
              [b \in 1..Len(FencedBlocks) |-> TextElem("pre", html_escape(Join(FencedBlocks[b], <<NL>>)))]
        /\ OfKind(docx.doc, "pre") =
              [b \in 1..Len(FencedBlocks) |-> TextElem("pre", Join(FencedBlocks[b], <<NL>>))]

\* the line a renderer has just processed, and whether it is a line outside
\* a table run: a blank line or a tagged block that is no table line
IsCodeMarker(line) == line = TagCodeStart \/ line = TagCodeEnd
IsTableLine(line) == StartsWith(line, TagTablePrefix)
LastLine(r) == RenderLines[r.i - 1]
ProcessedOutsideTable(r) ==
    /\ r.pc = "loop"
    /\ ~r.in_code_block
    /\ ~IsCodeMarker(LastLine(r))
    /\ ~IsTableLine(LastLine(r))

\* C3: in both renderers a blank line or any non-table line closes the open
\* table, so table rows separated by a blank line are never merged.
C3_BlankClosesTable ==
    /\ ProcessedOutsideTable(html) => ~html.in_table
    /\ ProcessedOutsideTable(docx) => ~docx.in_table

\* C4: when a code block arrives while a list or table is open, the list is
\* closed and the table flushed before the code block is taken up.
C4_CodeClosesContainers ==
    /\ html.in_code_block => (~html.in_table /\ html.in_list = "None")
    /\ docx.in_code_block => ~docx.in_table

\* a step of a renderer's loop that takes up a line outside a code block
HtmlTakes == html' # html /\ html.i <= Len(RenderLines) /\ ~html.in_code_block
DocxTakes == docx' # docx /\ docx.i <= Len(RenderLines) /\ ~docx.in_code_block
HtmlCurrent == RenderLines[html.i]
DocxCurrent == RenderLines[docx.i]
IsPlainBlock(line) ==
    \/ StartsWith(line, TagHeadingPrefix) \/ line = TagRule
    \/ StartsWith(line, TagBlockquote) \/ StartsWith(line, TagParagraph)
IsPrefix(a, b) == Len(a) <= Len(b) /\ SubSeq(b, 1, Len(a)) = a
Added(old, new) == SubSeq(new, Len(old) + 1, Len(new))

C5_Html ==
        (HtmlTakes /\ IsPlainBlock(HtmlCurrent)) =>
            LET closing == IF html.in_list # "None"
                           THEN <<[Elem("close") EXCEPT !.tag = html.in_list]>> ELSE <<>>
                flushed == IF html.in_table
                           THEN <<[Elem("table") EXCEPT !.rows = html.table_rows]>> ELSE <<>>
                before == html.html_lines \o closing \o flushed
                new == html'.html_lines
            IN /\ IsPrefix(before, new)
               /\ Len(new) <= Len(before) + 1
               /\ Len(new) > Len(before) => new[Len(new)].kind \in BlockKinds
               /\ html'.in_list = "None"
               /\ ~html'.in_table

C5_Docx ==
        (DocxTakes /\ IsPlainBlock(DocxCurrent)) =>
            LET old == docx.doc
                new == docx'.doc
                nt == IF docx.in_table THEN 1 ELSE 0
            IN /\ IsPrefix(old, new)
               /\ Len(new) >= Len(old) + nt
               /\ Len(new) <= Len(old) + nt + 1
               /\ docx.in_table =>
                     /\ new[Len(old) + 1].kind = "table"
                     /\ Len(new[Len(old) + 1].rows) = Len(docx.table_rows)
                     /\ new[Len(old) + 1].rows[1] = docx.table_rows[1]
               /\ Len(new) > Len(old) + nt => new[Len(new)].kind \in BlockKinds
               /\ docx'.current_list_type = "None"
               /\ ~docx'.in_table

\* C5: when a heading, rule, blockquote or paragraph arrives while a list or
\* table is open, the page renderer emits the closing tag and the flushed
\* table before the block's markup, the document renderer emits the pending
\* table before the block's element, and no list or table stays open.
C5_BlockClosesContainers == [][C5_Html /\ C5_Docx]_vars

\* a table, flushed by the block that follows it, in both outputs
FollowedByBlock(es, k) ==
    \E i \in 1..(Len(es) - 1) : es[i].kind = k /\ es[i + 1].kind \in BlockKinds
C5_Witness ==
    /\ RenderersDone
    /\ FollowedByBlock(html.html_lines, "table")
    /\ FollowedByBlock(docx.doc, "table")

\* the list container tags of the page output, in order
ListTags == SelectSeq(html.html_lines, LAMBDA e : e.kind \in {"open", "close"})

\* every opening tag is followed by its closing tag before the next opening
\* tag: never two containers open at once
C6_OneContainer ==
    \A j \in 1..Len(ListTags) :
        IF j % 2 = 1 THEN ListTags[j].kind = "open"
        ELSE ListTags[j].kind = "close" /\ ListTags[j].tag = ListTags[j - 1].tag

C6_Step ==
        (HtmlTakes /\ StartsWith(HtmlCurrent, TagListPrefix)) =>
            LET m == RenderListMatch(HtmlCurrent)
                tag == IF m[1] = "BULLET" THEN "ul" ELSE "ol"
                tags == SelectSeq(Added(html.html_lines, html'.html_lines),
                                  LAMBDA e : e.kind \in {"open", "close"})
                opening == [Elem("open") EXCEPT !.tag = tag]
                closing == [Elem("close") EXCEPT !.tag = html.in_list]
            IN IF html.in_list # tag \/ html.list_level # m[2]
               THEN /\ tags = IF html.in_list # "None" THEN <<closing, opening>> ELSE <<opening>>
                    /\ html'.in_list = tag
                    /\ html'.list_level = m[2]
               ELSE /\ tags = <<>>
                    /\ html'.in_list = html.in_list

\* C6: in the page renderer a list item opens a new container only when the
\* list kind or level differs from the open container; the old container's
\* closing tag comes before the new opening tag and two containers are never
\* open at once.
C6_ListContainers == []C6_OneContainer /\ [][C6_Step]_vars

\* bullet items followed by a numbered item: </ul> directly before <ol>
C6_Witness ==
    \E i \in 1..(Len(html.html_lines) - 1) :
        /\ html.html_lines[i] = [Elem("close") EXCEPT !.tag = "ul"]
        /\ html.html_lines[i + 1] = [Elem("open") EXCEPT !.tag = "ol"]

\* the [TABLE_ROW] lines of the last table run of the structured content
RECURSIVE RunStart(_, _)
RunStart(ls, i) == IF i >= 1 /\ IsTableLine(ls[i]) THEN RunStart(ls, i - 1) ELSE i + 1
FinalRun ==
    SelectSeq(SubSeq(RenderLines, RunStart(RenderLines, Len(RenderLines)), Len(RenderLines)),
              LAMBDA l : StartsWith(l, TagTableRow))

\* C7: for an input whose last lines are table rows both renderers emit, at
\* the end of the stream, exactly one table for that final run: its first
\* row as header, every later row as one body row, in source order.
C7_FinalRunOneTable ==
    (RenderersDone /\ FinalRun # <<>>) =>
        LET hl == html.html_lines
            dl == docx.doc
            cols == Len(DocxRowCells(FinalRun[1]))
        IN /\ hl # <<>>
           /\ hl[Len(hl)] = [Elem("table") EXCEPT
                                !.rows = [i \in 1..Len(FinalRun) |-> HtmlRowCells(FinalRun[i])]]
           /\ dl # <<>>
           /\ dl[Len(dl)] = [Elem("table") EXCEPT
                                !.rows = [i \in 1..Len(FinalRun) |->
                                             DocxRow(DocxRowCells(FinalRun[i]), cols)]]

Dashes3 == <<"-", "-", "-">>
C8_Parser ==
    LET line == RStrip(ParserLines[line_no])
    IN (/\ pc = "parse" /\ line_no <= Len(ParserLines) /\ line_no' = line_no + 1
        /\ ~in_code_block /\ ~StartsWith(line, Fence)
        /\ StartsWith(Strip(line), <<"|">>) /\ Contains(line, Dashes3))
       => structured_lines' = Append(structured_lines, TagTableSeparator)

C8_Html ==
    (HtmlTakes /\ HtmlCurrent = TagTableSeparator) =>
        /\ html'.in_table = html.in_table
        /\ html'.table_rows = html.table_rows
        /\ OfKind(html'.html_lines, "table") = OfKind(html.html_lines, "table")

C8_Docx ==
    (DocxTakes /\ DocxCurrent = TagTableSeparator) =>
        /\ docx'.in_table = docx.in_table
        /\ docx'.table_rows = docx.table_rows
        /\ docx'.doc = docx.doc

\* C8: a table line containing "---" never becomes a rendered row and does
\* not split the run: the parser turns it into the separator line, and both
\* renderers skip that line without touching the open table.
C8_SeparatorDropped == [][C8_Parser /\ C8_Html /\ C8_Docx]_vars

\* header, separator, body row: one table of two rows in both outputs
C8_Witness ==
    /\ RenderersDone
    /\ Len(RenderLines) = 3
    /\ StartsWith(RenderLines[1], TagTableRow)
    /\ RenderLines[2] = TagTableSeparator
    /\ StartsWith(RenderLines[3], TagTableRow)
    /\ Len(html.html_lines) = 1 /\ Len(html.html_lines[1].rows) = 2
    /\ Len(docx.doc) = 1 /\ Len(docx.doc[1].rows) = 2

\* both renderers have processed the same blocks
InStep == html.i = docx.i /\ html.pc = docx.pc

\* C9 as stated: after every block the table-open flag and the accumulated
\* rows of the two renderers are equal.
C9_EqualAccumulators ==
    InStep => (html.in_table = docx.in_table /\ html.table_rows = docx.table_rows)

EscapeRows(rows) ==
    [r \in 1..Len(rows) |-> [c \in 1..Len(rows[r]) |-> html_escape(rows[r][c])]]
\* the page output without the list container tags and the empty strings
PageBlocks == SelectSeq(html.html_lines, LAMBDA e : e.kind \notin {"open", "close", "empty"})

\* C9, amended: after every block the table-open flags are equal and the
\* page renderer's accumulated rows are the HTML-escaped rows of the document
\* renderer; both outputs hold the same blocks in the same order, with a
\* table of the same number of rows at the same positions.
C9_SameTables ==
    InStep =>
        /\ html.in_table = docx.in_table
        /\ html.table_rows = EscapeRows(docx.table_rows)
        /\ Len(PageBlocks) = Len(docx.doc)
        /\ \A i \in 1..Len(PageBlocks) :
              /\ PageBlocks[i].kind = docx.doc[i].kind
              /\ Len(PageBlocks[i].rows) = Len(docx.doc[i].rows)

\* a table already emitted and a second run being accumulated, in both
C9_Witness ==
    /\ InStep
    /\ html.in_table /\ docx.in_table
    /\ html.table_rows # <<>>
    /\ OfKind(html.html_lines, "table") # <<>>
    /\ OfKind(docx.doc, "table") # <<>>

C10_TagsClosed ==
    html.pc = "done" => (C6_OneContainer /\ Len(ListTags) % 2 = 0)

C10_Step ==
    html' # html =>
        LET added == Added(html.html_lines, html'.html_lines)
        IN /\ html.table_rows # <<>> =>
                \/ \E i \in 1..Len(added) : added[i] = [Elem("table") EXCEPT !.rows = html.table_rows]
                \/ html'.pc # "done" /\ IsPrefix(html.table_rows, html'.table_rows)
           /\ html.code_lines # <<>> =>
                \/ \E i \in 1..Len(added) : added[i] = HtmlPre(html.code_lines)
                \/ html'.pc # "done" /\ IsPrefix(html.code_lines, html'.code_lines)

\* C10: the markup the page renderer returns is closed: every list opening
\* tag has its closing tag, and every accumulated table row and every
\* buffered code line is emitted by the time the renderer returns (a row or
\* line stays buffered, or goes out, at every step, and none is left at the
\* end).
C10_MarkupClosed == []C10_TagsClosed /\ [][C10_Step]_vars

\* the code-block marker lines of a stream, in order
MarkerLines(ls) == SelectSeq(ls, IsCodeMarker)
Suffix(s, n) == SubSeq(s, Len(s) - n + 1, Len(s))

\* the stream ends with the closed code block made of the lines buffered
\* when the input ran out inside a fence
C11_ForceClosed ==
    (pc = "render" /\ in_code_block /\ code_block_content # <<>>) =>
        /\ Len(structured_lines) >= Len(code_block_content) + 2
        /\ Suffix(structured_lines, Len(code_block_content) + 2) =
              <<TagCodeStart>> \o code_block_content \o <<TagCodeEnd>>

\* C11: an input that ends inside a code block with buffered lines yields a
\* closed code block (start marker, the buffered lines, end marker), and in
\* every stream the parser returns the start and end markers are paired:
\* they alternate start, end, start, end, each start before its end.
C11_ClosedCodeBlocks ==
    /\ C11_ForceClosed
    /\ pc = "render" =>
          /\ Len(MarkerLines(structured_lines)) % 2 = 0
          /\ \A k \in 1..Len(MarkerLines(structured_lines)) :
                MarkerLines(structured_lines)[k] =
                   (IF k % 2 = 1 THEN TagCodeStart ELSE TagCodeEnd)

\* the source lines as the parser's loop sees them, those of them that are
\* neither blank nor a table separator row, and the blocks of the stream:
\* its entries other than the empty entry and the separator entry
SourceLines == [k \in 1..Len(ParserLines) |-> RStrip(ParserLines[k])]
IsSeparatorRow(line) == process_markdown_line(line) = TagTableSeparator
BlockSources == SelectSeq(SourceLines, LAMBDA l : Strip(l) # <<>> /\ ~IsSeparatorRow(l))
StreamBlocks == SelectSeq(structured_lines, LAMBDA e : e # <<>> /\ e # TagTableSeparator)
ParserReturned == pc = "render"
ParserFinished == pc \in {"render", "raised"}

\* C12: the stream the parser returns follows source line order and holds
\* exactly one block for every non-blank line of the input, none for blank
\* lines and table separator rows.
C12_OneBlockPerLine ==
    ParserFinished =>
        /\ ParserReturned
        /\ StreamBlocks = [k \in 1..Len(BlockSources) |-> process_markdown_line(BlockSources[k])]

\* the same outside code fences: when the input has no fence line and no
\* line raises, the blocks are the processed non-blank lines in order
C12_OutsideFences ==
    (ParserReturned /\ \A k \in 1..Len(SourceLines) : ~StartsWith(SourceLines[k], Fence)) =>
        StreamBlocks = [k \in 1..Len(BlockSources) |-> process_markdown_line(BlockSources[k])]

\* ------------------------------------------------------------------------
\* The inline cleaner on its own: _clean_inline_markdown(text), and a
\* second call on what the first returned
\* ------------------------------------------------------------------------
MaxTokens == 4

CleanerTokens == {<<"a">>, <<" ">>, <<"*">>, <<"*", "*">>, <<"_">>, <<"_", "_">>,
                  <<"~", "~">>, <<BT>>, <<"[", "a", "]", "(", "b", ")">>,
                  <<"\\">>, <<"<">>}
TokenSeqs == UNION {[1..n -> CleanerTokens] : n \in 1..MaxTokens}
CleanerInputs == {Join(ts, <<>>) : ts \in TokenSeqs}

InitCleaner ==
    /\ pc = "clean"
    /\ text \in CleanerInputs
    /\ cleaned = <<>>
    /\ cleaned_twice = <<>>
    /\ raw = <<>>
    /\ sanitized_text = <<>>
    /\ line_no = 1
    /\ structured_lines = <<>>
    /\ in_code_block = FALSE
    /\ code_block_content = <<>>
    /\ content = <<>>
    /\ html = HtmlInit
    /\ docx = DocxInit
    /\ CallsIdle /\ ManagerIdle /\ UnitsIdle

CleanOnce ==
    /\ pc = "clean"
    /\ cleaned' = clean_inline_markdown(text)
    /\ pc' = IF cleaned' = Raise THEN "raised" ELSE "clean_again"
    /\ UNCHANGED <<text, cleaned_twice, conversion_vars, calls, manager_vars, unit_vars>>

CleanAgain ==
    /\ pc = "clean_again"
    /\ cleaned_twice' = clean_inline_markdown(cleaned)
    /\ pc' = "cleaned"
    /\ UNCHANGED <<text, cleaned, conversion_vars, calls, manager_vars, unit_vars>>

NextCleaner == CleanOnce \/ CleanAgain

SpecCleaner == InitCleaner /\ [][NextCleaner]_vars

\* the characters that open an inline construct of the cleaner
Delimiters == {"*", "_", "~", BT, "["}
HasDelimiter(s) == \E k \in 1..Len(s) : s[k] \in Delimiters

\* C13: when no markdown delimiter remains in what the first pass of the
\* cleaner returned, a second pass over it returns it unchanged.
C13_Idempotent ==
    (pc = "cleaned" /\ ~HasDelimiter(cleaned)) => cleaned_twice = cleaned

\* the first pass removed markup, left no delimiter, and the second pass ran
C13_Witness ==
    /\ pc = "cleaned"
    /\ cleaned # text
    /\ cleaned # <<>>
    /\ ~HasDelimiter(cleaned)
    /\ cleaned_twice = cleaned

\* text is a plain span wrapped in the emphasis delimiter d: d, then one or
\* more letters, then d
Letters == {"a"}
WrappedIn(d) ==
    /\ Len(text) > 2 * Len(d)
    /\ StartsWith(text, d)
    /\ MatchAt(text, d, Len(text) - Len(d) + 1)
    /\ \A k \in (Len(d) + 1)..(Len(text) - Len(d)) : text[k] \in Letters
Unwrapped(d) == SubSeq(text, Len(d) + 1, Len(text) - Len(d))
EmphasisDelimiters == {<<"*">>, <<"_">>, Stars, Unders}

\* C14: a span that neither starts nor ends with the delimiter or
\* whitespace, wrapped in single or double asterisks or underscores, is
\* cleaned to the span alone, with no delimiter left.
C14_EmphasisUnwrapped ==
    \A d \in EmphasisDelimiters :
        (pc # "clean" /\ WrappedIn(d)) => cleaned = Unwrapped(d)

\* the spans of two or more characters, for which the rewriting does happen
C14_LongSpans ==
    \A d \in EmphasisDelimiters :
        (pc # "clean" /\ WrappedIn(d) /\ Len(Unwrapped(d)) >= 2) => cleaned = Unwrapped(d)

\* ------------------------------------------------------------------------
\* The sanitizer on its own: _remove_ai_artifacts(text), statement by
\* statement
\* ------------------------------------------------------------------------
MaxPieces == 4

ThoughtLine == ThoughtPrefix \o <<"5", " ", "s", "e", "c", "o", "n", "d", "s">>
SanitizerPieces == {ThoughtLine, <<NL>>, <<"#">>, <<" ">>, <<"x">>,
                    <<"u2011", "u2012", "u00ad", "u2013", "u2014">>,
                    <<"u200b", "u200c", "u200d", "ufeff">>,
                    BlackSquare}
PieceSeqs == UNION {[1..n -> SanitizerPieces] : n \in 1..MaxPieces}
SanitizerInputs == {Join(ps, <<>>) : ps \in PieceSeqs}

InitSanitizer ==
    /\ pc = "strip_thought"
    /\ raw \in SanitizerInputs
    /\ text = raw
    /\ sanitized_text = <<>>
    /\ cleaned = <<>>
    /\ cleaned_twice = <<>>
    /\ line_no = 1
    /\ structured_lines = <<>>
    /\ in_code_block = FALSE
    /\ code_block_content = <<>>
    /\ content = <<>>
    /\ html = HtmlInit
    /\ docx = DocxInit
    /\ CallsIdle /\ ManagerIdle /\ UnitsIdle

SanitizerFrame == <<raw, cleaned, cleaned_twice, line_no, structured_lines, in_code_block,
                    code_block_content, content, html, docx, calls, manager_vars, unit_vars>>

\* text = re.sub(r"^Thought for \d+ seconds\n", "", text.strip())
SanStripThought ==
    /\ pc = "strip_thought"
    /\ text' = StripThought(Strip(text))
    /\ pc' = "find_heading"
    /\ UNCHANGED <<sanitized_text, SanitizerFrame>>

\* match = re.search(...); if match: text = text[match.start():]
SanCutBeforeHeading ==
    /\ pc = "find_heading"
    /\ text' = IF FirstHeadingStart(text) # 0 THEN Drop(text, FirstHeadingStart(text) - 1) ELSE text
    /\ pc' = "replacements"
    /\ UNCHANGED <<sanitized_text, SanitizerFrame>>

\* for old, new in replacements.items(): text = text.replace(old, new)
SanReplace ==
    /\ pc = "replacements"
    /\ text' = ReplaceChars(ReplaceAll(text, BlackSquare, <<"-">>), Dashes, <<"-">>)
    /\ pc' = "zero_width"
    /\ UNCHANGED <<sanitized_text, SanitizerFrame>>

\* text = re.sub of the class u200b-u200d, ufeff with ""
SanRemoveZeroWidth ==
    /\ pc = "zero_width"
    /\ text' = RemoveChars(text, ZeroWidth)
    /\ pc' = "return"
    /\ UNCHANGED <<sanitized_text, SanitizerFrame>>

\* return text.strip()
SanReturn ==
    /\ pc = "return"
    /\ sanitized_text' = Strip(text)
    /\ pc' = "sanitized"
    /\ UNCHANGED <<text, SanitizerFrame>>

NextSanitizer ==
    SanStripThought \/ SanCutBeforeHeading \/ SanReplace \/ SanRemoveZeroWidth \/ SanReturn

SpecSanitizer == InitSanitizer /\ [][NextSanitizer]_vars

\* the statements compose to the function the conversion calls
SanitizerAgrees == pc = "sanitized" => sanitized_text = remove_ai_artifacts(raw)

\* C26: the sanitizer is idempotent: sanitizing what it returned returns
\* the same text.
C26_SanitizerIdempotent ==
    pc = "sanitized" => remove_ai_artifacts(sanitized_text) = sanitized_text

\* the part of C26 that holds: a returned text that has no line starting
\* with "Thought for" and whose first line starts with '#' or that has no
\* line starting with '#' is returned unchanged by a second pass
C26_StableWhenPlain ==
    (/\ pc = "sanitized"
     /\ StripThought(sanitized_text) = sanitized_text
     /\ FirstHeadingStart(sanitized_text) \in {0, 1}) =>
        remove_ai_artifacts(sanitized_text) = sanitized_text

\* the text the heading search is run on, and its lines
BeforeCut == StripThought(Strip(raw))
CutLines == Split(BeforeCut, NL)
FromLine(k) == Join(SubSeq(CutLines, k, Len(CutLines)), <<NL>>)
CutDone == pc = "replacements"

\* a line made of one or more '#', a space, and content
IsSpacedHeading(line) ==
    LET n == LeadCount(line, {"#"})
    IN n >= 1 /\ Len(line) >= n + 2 /\ line[n + 1] = " "
SpacedHeadings == {k \in 1..Len(CutLines) : IsSpacedHeading(CutLines[k])}

\* C15: the sanitizer discards what comes before the first line made of
\* one or more '#', a space and content; only such a line triggers the
\* discard, and a text without one is left unchanged by this step.
C15_CutAtSpacedHeading ==
    CutDone =>
        text = (IF SpacedHeadings = {} THEN BeforeCut ELSE FromLine(SetMin(SpacedHeadings)))

\* a line whose first character is '#'
HashLines == {k \in 1..Len(CutLines) : CutLines[k] # <<>> /\ CutLines[k][1] = "#"}

\* C15 as the code has it: the sanitizer discards what comes before the
\* first line that starts with '#', whatever follows the '#'; a text with
\* no line starting with '#' is left unchanged by this step.
C15_CutAtHashLine ==
    CutDone =>
        text = (IF HashLines = {} THEN BeforeCut ELSE FromLine(SetMin(HashLines)))

\* text was discarded before a line that starts with '#' and has no space
\* after it
C15_Witness ==
    /\ CutDone
    /\ HashLines # {}
    /\ SetMin(HashLines) > 1
    /\ ~IsSpacedHeading(CutLines[SetMin(HashLines)])
    /\ text # BeforeCut

\* a line that reads "Thought for N seconds", N one or more decimal digits
IsThoughtLine(line) ==
    /\ StartsWith(line, ThoughtPrefix)
    /\ LET rest == Drop(line, Len(ThoughtPrefix))
           n == LeadCount(rest, Digit)
       IN n >= 1 /\ Drop(rest, n) = SubSeq(SecondsSuffix, 1, Len(SecondsSuffix) - 1)
TrimmedLines == Split(Strip(raw), NL)
ThoughtDone == pc = "find_heading"

\* C16: when the first line of the input reads "Thought for N seconds",
\* that line is gone after the strip and the lines after it are kept; when
\* it does not, nothing is removed (the strip touches the leading line only).
C16_LeadingThoughtStripped ==
    ThoughtDone =>
        text = (IF IsThoughtLine(TrimmedLines[1])
                THEN Join(Tail(TrimmedLines), <<NL>>)
                ELSE Strip(raw))

\* the same for a thought line that is followed by another line
C16_FollowedByLine ==
    (ThoughtDone /\ Len(TrimmedLines) >= 2) =>
        text = (IF IsThoughtLine(TrimmedLines[1])
                THEN Join(Tail(TrimmedLines), <<NL>>)
                ELSE Strip(raw))

HasAny(s, cls) == \E k \in 1..Len(s) : s[k] \in cls
Trimmed(s) == s = <<>> \/ (s[1] \notin WS /\ s[Len(s)] \notin WS)

\* C17: what the sanitizer returns holds none of U+2011, U+2012, U+00AD,
\* U+2013, U+2014, none of U+200B, U+200C, U+200D, U+FEFF, and neither
\* starts nor ends with whitespace.
C17_CleanOutput ==
    pc = "sanitized" =>
        /\ ~HasAny(sanitized_text, {"u2011", "u2012", "u00ad", "u2013", "u2014"})
        /\ ~HasAny(sanitized_text, {"u200b", "u200c", "u200d", "ufeff"})
        /\ Trimmed(sanitized_text)

\* dashes were replaced by hyphens, zero-width characters removed and
\* whitespace trimmed, and something is left
C17_Witness ==
    /\ pc = "sanitized"
    /\ HasAny(raw, {"u00ad"})
    /\ HasAny(raw, {"u200b"})
    /\ ~Trimmed(raw)
    /\ HasAny(sanitized_text, {"-"})
    /\ HasAny(sanitized_text, {"x"})

\* ------------------------------------------------------------------------
\* The conversion of one heading line of any depth
\* ------------------------------------------------------------------------
MaxHashes == 10

RECURSIVE Hashes(_)
Hashes(n) == IF n = 0 THEN <<>> ELSE <<"#">> \o Hashes(n - 1)

HeadingTitles == {<<"T">>, <<"*", "*", "b", "*", "*">>, <<"A", "&">>, <<>>,
                  <<"*", "*", "*", "*">>}
HeadingInputs == {Hashes(n) \o sep \o t : n \in 1..MaxHashes, sep \in {<<>>, <<" ">>},
                                           t \in HeadingTitles}

InitHeadings ==
    /\ raw \in HeadingInputs
    /\ pc = "sanitize"
    /\ sanitized_text = <<>>
    /\ line_no = 1
    /\ structured_lines = <<>>
    /\ in_code_block = FALSE
    /\ code_block_content = <<>>
    /\ content = <<>>
    /\ html = HtmlInit
    /\ docx = DocxInit
    /\ CleanerIdle /\ CallsIdle /\ ManagerIdle /\ UnitsIdle

SpecHeadings == InitHeadings /\ [][Next]_vars

\* the number of '#' the line starts with, its title after inline cleaning,
\* and the depth a rendered heading can have at most
HashCount == LeadCount(raw, {"#"})
CleanTitle == clean_inline_markdown(Drop(raw, HashCount))
DeepestHeading == 6
Clamped(n) == IF n > DeepestHeading THEN DeepestHeading ELSE n

\* C19: a line starting with n '#' parses to a heading of level n, not
\* clamped, whose text is the inline-cleaned title; the page renderer and
\* the document renderer each emit one heading of level min(n, 6) with
\* that text.
C19_HeadingLevels ==
    /\ pc = "render" =>
          structured_lines = <<TagHeadingPrefix \o IntToStr(HashCount) \o <<"]">> \o CleanTitle>>
    /\ (pc = "render" /\ html.pc = "done") =>
          html.html_lines =
             <<[TextElem("h", html_escape(CleanTitle)) EXCEPT !.level = Clamped(HashCount)]>>
    /\ (pc = "render" /\ docx.pc = "done") =>
          docx.doc = <<[TextElem("h", CleanTitle) EXCEPT !.level = Clamped(HashCount)]>>

\* a heading deeper than six levels went through the parser unclamped and
\* through both renderers
C19_Witness ==
    /\ RenderersDone
    /\ HashCount > DeepestHeading
    /\ StartsWith(structured_lines[1], TagHeadingPrefix \o IntToStr(HashCount))
    /\ html.html_lines[1].level = DeepestHeading
    /\ docx.doc[1].level = DeepestHeading
    /\ CleanTitle # <<>>

\* ------------------------------------------------------------------------
\* TemplateManager (template_manager.py)
\* ------------------------------------------------------------------------
MaxTemplates == 2

\* user_id: None or the id of a user; template names; file types
None == <<>>
UserIds == {<<"A">>, <<"B">>}
Callers == UserIds \cup {None}
TemplateNames == {<<"t">>, <<"A", "_", "t">>}
FileTypes == {<<"pdf">>}

\* hashlib.md5(...).hexdigest(): a digest that tells its inputs apart
Md5(s) == <<"md5", s>>

\* f"{template_name}_{user_id or 'global'}_{file_type}"
TemplateId(template_name, user_id, file_type) ==
    Md5(template_name \o <<"_">> \o (IF user_id # None THEN user_id ELSE <<"global">>)
        \o <<"_">> \o file_type)

\* template_dir / f"{template_id}.{file_type}", template_dir the directory
\* of the user or the storage directory
TemplateFilePath(template_name, user_id, file_type) ==
    [dir |-> user_id, id |-> TemplateId(template_name, user_id, file_type), ext |-> file_type]

\* template_key of save_template
TemplateKey(template_name, user_id) ==
    IF user_id # None THEN user_id \o <<"_">> \o template_name ELSE template_name

\* the dictionary as the sequence of its items in insertion order
Keys(md) == {md[k].key : k \in 1..Len(md)}
IndexOf(md, key) == CHOOSE k \in 1..Len(md) : md[k].key = key
Lookup(md, key) == md[IndexOf(md, key)].info
SetItem(md, key, info) ==
    IF key \in Keys(md)
    THEN [md EXCEPT ![IndexOf(md, key)] = [key |-> key, info |-> info]]
    ELSE Append(md, [key |-> key, info |-> info])
DelIndex(md, k) == SubSeq(md, 1, k - 1) \o SubSeq(md, k + 1, Len(md))

\* get_template_info: <<info>>, or <<>> for None
GetTemplateInfo(md, template_name, user_id) ==
    LET user_key == user_id \o <<"_">> \o template_name
        matches == {k \in 1..Len(md) :
                       /\ md[k].info.template_name = template_name
                       /\ \/ user_id = None
                          \/ md[k].info.user_id = user_id
                          \/ md[k].info.user_id = None}
    IN IF user_id # None /\ user_key \in Keys(md)
       THEN <<Lookup(md, user_key)>>
       ELSE IF /\ template_name \in Keys(md)
               /\ Lookup(md, template_name).user_id \in {None, user_id}
       THEN <<Lookup(md, template_name)>>
       ELSE IF matches # {} THEN <<md[SetMin(matches)].info>>
       ELSE <<>>

\* the entries list_templates shows to the caller
ListTemplates(md, user_id) ==
    LET shown == SelectSeq(md, LAMBDA e : e.info.user_id = None
                                           \/ (user_id # None /\ e.info.user_id = user_id))
    IN [k \in 1..Len(shown) |->
           [template_name |-> shown[k].info.template_name,
            template_id |-> shown[k].info.template_id,
            file_type |-> shown[k].info.file_type]]

Called(op, template_name, user_id, result) ==
    [op |-> op, template_name |-> template_name, user_id |-> user_id, result |-> result]

InitManager ==
    /\ pc = "manager"
    /\ _metadata = <<>>
    /\ files = {}
    /\ metadata_file = <<>>
    /\ returned = <<>>
    /\ raw = <<>>
    /\ sanitized_text = <<>>
    /\ line_no = 1
    /\ structured_lines = <<>>
    /\ in_code_block = FALSE
    /\ code_block_content = <<>>
    /\ content = <<>>
    /\ html = HtmlInit
    /\ docx = DocxInit
    /\ CleanerIdle /\ CallsIdle /\ UnitsIdle

ManagerFrame == <<pc, conversion_vars, cleaner_vars, calls, unit_vars>>

save_template(template_name, file_type, user_id) ==
    LET template_id == TemplateId(template_name, user_id, file_type)
        template_file_path == TemplateFilePath(template_name, user_id, file_type)
        template_key == TemplateKey(template_name, user_id)
    IN /\ template_key \in Keys(_metadata) \/ Len(_metadata) < MaxTemplates
       /\ files' = files \cup {template_file_path}
       /\ _metadata' = SetItem(_metadata, template_key,
                               [template_id |-> template_id, template_name |-> template_name,
                                file_path |-> template_file_path, file_type |-> file_type,
                                user_id |-> user_id])
       /\ metadata_file' = _metadata'
       /\ returned' = Called("save_template", template_name, user_id, <<template_id>>)
       /\ UNCHANGED ManagerFrame

list_templates(user_id) ==
    /\ returned' = Called("list_templates", None, user_id, ListTemplates(_metadata, user_id))
    /\ UNCHANGED <<_metadata, files, metadata_file, ManagerFrame>>

get_template_info(template_name, user_id) ==
    /\ returned' = Called("get_template_info", template_name, user_id,
                          GetTemplateInfo(_metadata, template_name, user_id))
    /\ UNCHANGED <<_metadata, files, metadata_file, ManagerFrame>>

delete_template(template_name, user_id) ==
    LET template_info == GetTemplateInfo(_metadata, template_name, user_id)
        found == {k \in 1..Len(_metadata) :
                     /\ _metadata[k].info.template_name = template_name
                     /\ (user_id = None \/ _metadata[k].info.user_id = user_id)}
    IN IF template_info = <<>>
       THEN /\ returned' = Called("delete_template", template_name, user_id, <<FALSE>>)
            /\ UNCHANGED <<_metadata, files, metadata_file, ManagerFrame>>
       ELSE /\ files' = files \ {template_info[1].file_path}
            /\ _metadata' = IF found = {} THEN _metadata ELSE DelIndex(_metadata, SetMin(found))
            /\ metadata_file' = _metadata'
            /\ returned' = Called("delete_template", template_name, user_id, <<TRUE>>)
            /\ UNCHANGED ManagerFrame

NextManager ==
    \/ \E n \in TemplateNames, ft \in FileTypes, u \in Callers : save_template(n, ft, u)
    \/ \E u \in Callers : list_templates(u)
    \/ \E n \in TemplateNames, u \in Callers : get_template_info(n, u)
    \/ \E n \in TemplateNames, u \in Callers : delete_template(n, u)

SpecManager == InitManager /\ [][NextManager]_vars

\* C20: get_template_info(name, user_id) returns only a template that is
\* global or owned by the requesting user_id, whatever was saved and
\* deleted before.
C20_OwnTemplatesOnly ==
    (returned # <<>> /\ returned.op = "get_template_info" /\ returned.result # <<>>) =>
        returned.result[1].user_id \in {None, returned.user_id}

Entries(md) == {md[k] : k \in 1..Len(md)}

\* what delete_template(template_name, user_id) is to do from this state
DeleteOutcome(template_name, user_id) ==
    LET resolved == GetTemplateInfo(_metadata, template_name, user_id)
    IN IF resolved = <<>>
       THEN /\ returned'.result = <<FALSE>>
            /\ UNCHANGED <<_metadata, files, metadata_file>>
       ELSE /\ returned'.result = <<TRUE>>
            /\ Entries(_metadata') = {e \in Entries(_metadata) : e.info # resolved[1]}
            /\ resolved[1].file_path \notin files'
            /\ \A e \in Entries(_metadata') : e.info.file_path \in files'

\* C21: delete_template(name, user_id) returns True only when it removed a
\* template: after True the entry get_template_info(name, user_id) resolved
\* is gone from the metadata with its file, no other entry is removed and
\* every remaining entry has its file; it returns False exactly when no
\* template was found, and then changes nothing.
C21_DeleteRemoves ==
    [][\A n \in TemplateNames, u \in Callers :
          delete_template(n, u) => DeleteOutcome(n, u)]_vars

\* the part of C21 that holds: False is returned exactly when nothing was
\* found, nothing changes then, and True is returned otherwise
C21_FalseWhenNotFound ==
    [][\A n \in TemplateNames, u \in Callers :
          delete_template(n, u) =>
              /\ (returned'.result = <<FALSE>>) <=> (GetTemplateInfo(_metadata, n, u) = <<>>)
              /\ (returned'.result = <<FALSE>>) => UNCHANGED <<_metadata, files, metadata_file>>]_vars

\* every metadata entry has its file
C21_EntriesHaveFiles == \A e \in Entries(_metadata) : e.info.file_path \in files

\* C27: save_template for one (user_id, template_name) pair leaves the
\* metadata entry of every other pair unchanged: distinct pairs have
\* distinct keys, so a save overwrites no other template.
C27_SaveKeepsOthers ==
    [][\A n \in TemplateNames, ft \in FileTypes, u \in Callers :
          save_template(n, ft, u) =>
              \A e \in Entries(_metadata) :
                  (e.info.user_id # u \/ e.info.template_name # n) =>
                      e \in Entries(_metadata')]_vars

\* the part of C27 that holds: a save changes no entry under another key
C27_SaveKeepsOtherKeys ==
    [][\A n \in TemplateNames, ft \in FileTypes, u \in Callers :
          save_template(n, ft, u) =>
              \A e \in Entries(_metadata) :
                  e.key # TemplateKey(n, u) => e \in Entries(_metadata')]_vars

\* ------------------------------------------------------------------------
\* Several conversions in progress on one Action instance
\* ------------------------------------------------------------------------
MaxCalls == 2

\* the locals of one conversion: those of _sanitize_and_parse_markdown and
\* _parse_markdown_structure and of the two renderers
InitFrame(input) ==
    [pc |-> "sanitize", raw |-> input, sanitized_text |-> <<>>, line_no |-> 1,
     structured_lines |-> <<>>, in_code_block |-> FALSE, code_block_content |-> <<>>,
     content |-> <<>>, html |-> HtmlInit, docx |-> DocxInit]

FrameDone(f) ==
    f.pc = "raised" \/ (f.pc = "render" /\ f.html.pc = "done" /\ f.docx.pc = "done")

\* one iteration of the parser's loop, and what follows the loop
FrameParseLine(f, lines) ==
    LET line == RStrip(lines[f.line_no])
        processed_line == process_markdown_line(line)
        g == [f EXCEPT !.line_no = f.line_no + 1]
    IN IF StartsWith(line, Fence)
       THEN [g EXCEPT !.structured_lines =
                         IF f.in_code_block /\ f.code_block_content # <<>>
                         THEN f.structured_lines \o <<TagCodeStart>> \o f.code_block_content
                              \o <<TagCodeEnd>>
                         ELSE f.structured_lines,
                      !.code_block_content = IF f.in_code_block THEN <<>> ELSE f.code_block_content,
                      !.in_code_block = ~f.in_code_block]
       ELSE IF f.in_code_block
       THEN [g EXCEPT !.code_block_content = Append(f.code_block_content, line)]
       ELSE IF processed_line = Raise
       THEN [g EXCEPT !.pc = "raised"]
       ELSE [g EXCEPT !.structured_lines = Append(f.structured_lines, processed_line)]

FrameParseEnd(f) ==
    LET closed == IF f.in_code_block /\ f.code_block_content # <<>>
                  THEN f.structured_lines \o <<TagCodeStart>> \o f.code_block_content
                       \o <<TagCodeEnd>>
                  ELSE f.structured_lines
    IN [f EXCEPT !.structured_lines = closed, !.content = Join(closed, <<NL>>), !.pc = "render"]

\* one step of the renderers over the stream, page renderer first
FrameRender(f, lines) ==
    IF f.html.pc # "done" /\ f.html.i = f.docx.i
    THEN IF f.html.i <= Len(lines)
         THEN [f EXCEPT !.html = [HtmlLineStep(f.html, lines[f.html.i])
                                     EXCEPT !.pc = "loop", !.i = f.html.i + 1]]
         ELSE [f EXCEPT !.html = [HtmlFinish(f.html) EXCEPT !.pc = "done"]]
    ELSE IF f.docx.i < f.html.i /\ f.docx.i <= Len(lines)
    THEN [f EXCEPT !.docx = [DocxLineStep(f.docx, lines[f.docx.i])
                                EXCEPT !.pc = "loop", !.i = f.docx.i + 1]]
    ELSE [f EXCEPT !.docx = [DocxFinish(f.docx) EXCEPT !.pc = "done"]]

\* the next step of a conversion that is not done
StepFrame(f) ==
    IF f.pc = "sanitize"
    THEN [f EXCEPT !.sanitized_text = remove_ai_artifacts(f.raw), !.pc = "parse"]
    ELSE IF f.pc = "parse"
    THEN IF f.line_no <= Len(Split(f.sanitized_text, NL))
         THEN FrameParseLine(f, Split(f.sanitized_text, NL))
         ELSE FrameParseEnd(f)
    ELSE FrameRender(f, Split(Strip(f.content), NL))

\* the conversion of the variables above as a frame: every step of Next is
\* a step of StepFrame
CurrentFrame ==
    [pc |-> pc, raw |-> raw, sanitized_text |-> sanitized_text, line_no |-> line_no,
     structured_lines |-> structured_lines, in_code_block |-> in_code_block,
     code_block_content |-> code_block_content, content |-> content, html |-> html,
     docx |-> docx]
FrameStepAgrees == [][CurrentFrame' = StepFrame(CurrentFrame)]_vars

\* the texts the concurrent conversions are started on: a table row and a
\* list item, each followed by an open fence with one line in it
CallInputs == {Join(<<L_Row, L_Fence, L_Text>>, <<NL>>),
               Join(<<L_Bullet, L_Fence, L_Numbered>>, <<NL>>)}
Callees == 1..MaxCalls

\* the code buffer a call's parser reads and appends to: one code buffer
\* for all calls of the instance (an attribute instead of a local)
CodeBufferOf_Instance(c) == 1

\* the code buffer a call's parser reads and appends to: the local
\* code_block_content of that call
CodeBufferOf(c) == c

InitCalls ==
    /\ pc = "calls"
    /\ calls \in [Callees -> {InitFrame(input) : input \in CallInputs}]
    /\ raw = <<>>
    /\ sanitized_text = <<>>
    /\ line_no = 1
    /\ structured_lines = <<>>
    /\ in_code_block = FALSE
    /\ code_block_content = <<>>
    /\ content = <<>>
    /\ html = HtmlInit
    /\ docx = DocxInit
    /\ CleanerIdle /\ ManagerIdle /\ UnitsIdle

\* the frame call c resumes with: its own locals, and the code buffer it reads
WithBuffer(c) ==
    [calls[c] EXCEPT !.code_block_content = calls[CodeBufferOf(c)].code_block_content]

\* the frames after call c has stepped to g and written its code buffer back
Put(c, g) ==
    [[calls EXCEPT ![c] = g]
        EXCEPT ![CodeBufferOf(c)].code_block_content = g.code_block_content]

\* call c takes its next step while the other calls are anywhere in theirs
CallStep(c) ==
    /\ ~FrameDone(calls[c])
    /\ calls' = Put(c, StepFrame(WithBuffer(c)))
    /\ UNCHANGED <<pc, conversion_vars, cleaner_vars, manager_vars, unit_vars>>

NextCalls == \E c \in Callees : CallStep(c)

SpecCalls == InitCalls /\ [][NextCalls]_vars

\* a conversion run alone: whether it goes from frame g through frame f, and
\* its last frame
RECURSIVE Reaches(_, _)
Reaches(g, f) == g = f \/ (~FrameDone(g) /\ Reaches(StepFrame(g), f))
RECURSIVE RunAlone(_)
RunAlone(f) == IF FrameDone(f) THEN f ELSE RunAlone(StepFrame(f))

\* C18: conversions interleaved on one instance each compute what they
\* compute alone: at every moment the locals of a call (code buffer, open
\* list and level, table rows, the output so far) are those the same
\* conversion has at some point of a run on its own, and a finished call
\* holds the stream, the page and the document of that run.
C18_CallsIndependent ==
    \A c \in Callees :
        /\ Reaches(InitFrame(calls[c].raw), calls[c])
        /\ FrameDone(calls[c]) => calls[c] = RunAlone(InitFrame(calls[c].raw))

\* two conversions of different texts are in progress at once, both inside
\* a code block with lines buffered
C18_Witness ==
    /\ calls[1].raw # calls[2].raw
    /\ calls[1].pc = "parse" /\ calls[1].in_code_block /\ calls[1].code_block_content # <<>>
    /\ calls[2].pc = "parse" /\ calls[2].in_code_block /\ calls[2].code_block_content # <<>>
\* ------------------------------------------------------------------------
\* One line through the parser's loop body, outside a code block
\* ------------------------------------------------------------------------
MaxChars == 4

LineChars == {"-", "*", "_", " ", "#", ">", "|", "1", ".", "a"}
CharSeqs == UNION {[1..n -> LineChars] : n \in 0..MaxChars}

InitClassifier ==
    /\ pc = "classify"
    /\ original_line \in CharSeqs
    /\ tagged_line = <<>>
    /\ raw = <<>>
    /\ sanitized_text = <<>>
    /\ line_no = 1
    /\ structured_lines = <<>>
    /\ in_code_block = FALSE
    /\ code_block_content = <<>>
    /\ content = <<>>
    /\ html = HtmlInit
    /\ docx = DocxInit
    /\ CleanerIdle /\ CallsIdle /\ ManagerIdle /\ InstancesIdle /\ PdfIdle

\* line = line.rstrip(); processed_line = self._process_markdown_line(line)
ProcessLine ==
    /\ pc = "classify"
    /\ tagged_line' = process_markdown_line(RStrip(original_line))
    /\ pc' = IF tagged_line' = Raise THEN "raised" ELSE "classified"
    /\ UNCHANGED <<original_line, conversion_vars, cleaner_vars, calls, manager_vars,
                   instances, pdf_vars>>

NextClassifier == ProcessLine

SpecClassifier == InitClassifier /\ [][NextClassifier]_vars

\* the rules of the dispatch, each read on its own from its pattern
AllIn(s, chars) == \A k \in 1..Len(s) : s[k] \in chars
IsMarker(s) ==
    \/ Len(s) = 1 /\ s[1] \in {"*", "+", "-"}
    \/ Len(s) >= 2 /\ s[Len(s)] = "." /\ AllIn(SubSeq(s, 1, Len(s) - 1), Digit)
MatchesBlank(l) == AllIn(l, WS)
MatchesHeading(l) == l # <<>> /\ l[1] = "#"
MatchesRule(l) == Len(Strip(l)) >= 3 /\ AllIn(Strip(l), {"-", "*", "_"})
\* leading whitespace, a marker, whitespace, and at least one more character
MatchesList(l) ==
    \E i \in 0..Len(l), m \in 1..Len(l) :
        /\ AllIn(SubSeq(l, 1, i), WS)
        /\ i + m + 2 <= Len(l)
        /\ IsMarker(SubSeq(l, i + 1, i + m))
        /\ l[i + m + 1] \in WS
MatchesQuote(l) == l # <<>> /\ l[1] = ">"
MatchesTable(l) == Strip(l) # <<>> /\ Strip(l)[1] = "|"

\* the first rule of the order that matches the line
FirstRule(l) ==
    IF MatchesBlank(l) THEN "blank"
    ELSE IF MatchesHeading(l) THEN "heading"
    ELSE IF MatchesRule(l) THEN "rule"
    ELSE IF MatchesList(l) THEN "list"
    ELSE IF MatchesQuote(l) THEN "quote"
    ELSE IF MatchesTable(l) THEN "table"
    ELSE "paragraph"

\* what a line of the stream is tagged as
TagKind(t) ==
    IF t = <<>> THEN "blank"
    ELSE IF StartsWith(t, TagHeadingPrefix) THEN "heading"
    ELSE IF t = TagRule THEN "rule"
    ELSE IF StartsWith(t, TagListPrefix) THEN "list"
    ELSE IF StartsWith(t, TagBlockquote) THEN "quote"
    ELSE IF StartsWith(t, TagTablePrefix) THEN "table"
    ELSE IF StartsWith(t, TagParagraph) THEN "paragraph"
    ELSE "none"

\* C22: a line outside a code block is classified by the first matching
\* rule in the order blank, heading, horizontal rule, list item,
\* blockquote, table row, paragraph: a line of three or more '-', '*' or
\* '_' after trim is a horizontal rule and not a list item, a line is a
\* table row only if no earlier rule matches, and a line matching no rule
\* is a paragraph.
C22_FirstMatchingRule ==
    pc = "classified" =>
        LET l == RStrip(original_line)
            kind == TagKind(tagged_line)
        IN /\ kind = FirstRule(l)
           /\ MatchesRule(l) => kind = "rule"
           /\ kind = "table" => ~(MatchesBlank(l) \/ MatchesHeading(l) \/ MatchesRule(l)
                                     \/ MatchesList(l) \/ MatchesQuote(l))
           /\ ~(MatchesBlank(l) \/ MatchesHeading(l) \/ MatchesRule(l) \/ MatchesList(l)
                  \/ MatchesQuote(l) \/ MatchesTable(l)) => kind = "paragraph"

\* a line that opens like a bullet and is a horizontal rule was classified
C22_Witness ==
    /\ pc = "classified"
    /\ Len(original_line) >= 3
    /\ original_line[1] = "*"
    /\ tagged_line = TagRule

\* ------------------------------------------------------------------------
\* Conversions of texts made of table rows
\* ------------------------------------------------------------------------
MaxRows == 3

L_Bar == <<"|">>
L_OneCell == <<"|", "A", "|">>
L_TwoCells == <<"|", "A", "|", "B", "|">>
TableLines == {L_Bar, L_OneCell, L_TwoCells, L_Separator, L_Text, L_Blank, L_Bullet}
TableInputs == {Join(ls, <<NL>>) : ls \in UNION {[1..n -> TableLines] : n \in 1..MaxRows}}

InitTables ==
    /\ raw \in TableInputs
    /\ pc = "sanitize"
    /\ sanitized_text = <<>>
    /\ line_no = 1
    /\ structured_lines = <<>>
    /\ in_code_block = FALSE
    /\ code_block_content = <<>>
    /\ content = <<>>
    /\ html = HtmlInit
    /\ docx = DocxInit
    /\ CleanerIdle /\ CallsIdle /\ ManagerIdle /\ UnitsIdle

SpecTables == InitTables /\ [][Next]_vars

\* the table lines of the stream carry no cell
NoCells == \A k \in 1..Len(structured_lines) :
               IsTableLine(structured_lines[k]) =>
                   structured_lines[k] \in {TagTableRow, TagTableSeparator}
HasTableLine == \E k \in 1..Len(structured_lines) : IsTableLine(structured_lines[k])
HasRowLine == \E k \in 1..Len(structured_lines) : StartsWith(structured_lines[k], TagTableRow)

\* C23: a table run with no rows or with zero columns is a no-op in both
\* renderers, the run whose parsed rows carry no cells included: it
\* produces no table and raises no error.
C23_DegenerateTableNoOp ==
    (pc = "render" /\ RenderersDone /\ NoCells) =>
        /\ OfKind(html.html_lines, "table") = <<>>
        /\ OfKind(docx.doc, "table") = <<>>

\* the part of C23 that holds: a run without a row renders to nothing
C23_NoRowsNoOp ==
    (pc = "render" /\ RenderersDone /\ ~HasRowLine) =>
        /\ OfKind(html.html_lines, "table") = <<>>
        /\ OfKind(docx.doc, "table") = <<>>

\* the tables of the page and of the document, in order
PageTables == OfKind(html.html_lines, "table")
DocTables == OfKind(docx.doc, "table")

\* C29: for every table run both renderers render the same cells: each
\* cell of each row appears in the table of the page renderer and in the
\* table of the document renderer, also when a body row has more or fewer
\* cells than the header row.
C29_SameCells ==
    (pc = "render" /\ RenderersDone) =>
        /\ Len(PageTables) = Len(DocTables)
        /\ \A i \in 1..Len(PageTables) :
              /\ Len(PageTables[i].rows) = Len(DocTables[i].rows)
              /\ \A r \in 1..Len(PageTables[i].rows) :
                    \A c \in 1..Len(PageTables[i].rows[r]) :
                        /\ c <= Len(DocTables[i].rows[r])
                        /\ PageTables[i].rows[r][c] = html_escape(DocTables[i].rows[r][c])

\* the part of C29 that holds: the cells up to the width of the header row
C29_SameCellsInHeaderWidth ==
    (pc = "render" /\ RenderersDone) =>
        /\ Len(PageTables) = Len(DocTables)
        /\ \A i \in 1..Len(PageTables) :
              /\ Len(PageTables[i].rows) = Len(DocTables[i].rows)
              /\ \A r \in 1..Len(PageTables[i].rows) :
                    \A c \in 1..Len(PageTables[i].rows[r]) :
                        c <= Len(PageTables[i].rows[1]) =>
                            /\ c <= Len(DocTables[i].rows[r])
                            /\ PageTables[i].rows[r][c] = html_escape(DocTables[i].rows[r][c])

\* C25: in both renderers, after every processed line, an open table has a
\* non-empty row accumulator, and in the page renderer a list container
\* and a table are never open at the same time.
C25_TableFlags ==
    /\ html.in_table => html.table_rows # <<>>
    /\ docx.in_table => docx.table_rows # <<>>
    /\ ~(html.in_list # "None" /\ html.in_table)

\* the page renderer opened a table right after a list item: the list
\* container was closed first
C25_Witness ==
    /\ html.pc = "loop"
    /\ html.in_table
    /\ docx.in_table
    /\ Len(html.html_lines) >= 3
    /\ html.html_lines[Len(html.html_lines)].kind = "close"
    /\ html.html_lines[Len(html.html_lines) - 1].kind = "li"

\* ------------------------------------------------------------------------
\* Conversions of one-line texts with underscores
\* ------------------------------------------------------------------------
UnderscoreTokens == {<<"_">>, <<"a">>, <<" ">>, <<"\\", "_">>, <<"*">>}
UnderscoreInputs ==
    {Join(ts, <<>>) : ts \in UNION {[1..n -> UnderscoreTokens] : n \in 1..MaxTokens}}

InitUnderscores ==
    /\ raw \in UnderscoreInputs
    /\ pc = "sanitize"
    /\ sanitized_text = <<>>
    /\ line_no = 1
    /\ structured_lines = <<>>
    /\ in_code_block = FALSE
    /\ code_block_content = <<>>
    /\ content = <<>>
    /\ html = HtmlInit
    /\ docx = DocxInit
    /\ CleanerIdle /\ CallsIdle /\ ManagerIdle /\ UnitsIdle

SpecUnderscores == InitUnderscores /\ [][Next]_vars

\* the test of _add_clean_paragraph_to_docx for a wrapped text
WrappedInUnderscores(t) == Len(t) > 2 /\ t[1] = "_" /\ t[Len(t)] = "_"

\* C24: no Paragraph block the parser produces from input text has a
\* cleaned text that starts with '_', ends with '_' and is longer than two
\* characters, so the document renderer unwraps and italicises no text that
\* came from the input.
C24_NoWrappedParagraph ==
    /\ \A k \in 1..Len(structured_lines) :
           StartsWith(structured_lines[k], TagParagraph) =>
               ~WrappedInUnderscores(Strip(Drop(structured_lines[k], Len(TagParagraph))))
    /\ \A k \in 1..Len(docx.doc) : ~docx.doc[k].italic

\* ------------------------------------------------------------------------
\* TemplateManager instances on one storage directory
\* ------------------------------------------------------------------------
MaxInstances == 2

Instances == 1..MaxInstances
InstanceNames == {<<"t">>, <<"s">>}
InstanceCallers == {None, <<"A">>}

InitInstances ==
    /\ pc = "instances"
    /\ instances = [i \in Instances |-> [constructed |-> FALSE, _metadata |-> <<>>]]
    /\ metadata_file = <<>>
    /\ files = {}
    /\ _metadata = <<>>
    /\ returned = <<>>
    /\ raw = <<>>
    /\ sanitized_text = <<>>
    /\ line_no = 1
    /\ structured_lines = <<>>
    /\ in_code_block = FALSE
    /\ code_block_content = <<>>
    /\ content = <<>>
    /\ html = HtmlInit
    /\ docx = DocxInit
    /\ CleanerIdle /\ CallsIdle /\ ClassifierIdle /\ PdfIdle

InstancesFrame == <<pc, conversion_vars, cleaner_vars, calls, classifier_vars, pdf_vars,
                    _metadata, returned>>

\* TemplateManager(): self._metadata = self._load_metadata()
Construct(i) ==
    /\ ~instances[i].constructed
    /\ instances' = [instances EXCEPT ![i] = [constructed |-> TRUE, _metadata |-> metadata_file]]
    /\ UNCHANGED <<metadata_file, files, InstancesFrame>>

\* save_template on instance i: the entry is set in the instance's
\* dictionary and the dictionary is written to the metadata file
InstanceSave(i, template_name, file_type, user_id) ==
    LET md == instances[i]._metadata
        template_file_path == TemplateFilePath(template_name, user_id, file_type)
        template_key == TemplateKey(template_name, user_id)
        saved == SetItem(md, template_key,
                         [template_id |-> TemplateId(template_name, user_id, file_type),
                          template_name |-> template_name,
                          file_path |-> template_file_path, file_type |-> file_type,
                          user_id |-> user_id])
    IN /\ instances[i].constructed
       /\ template_key \in Keys(md) \/ Len(md) < MaxTemplates
       /\ files' = files \cup {template_file_path}
       /\ instances' = [instances EXCEPT ![i]._metadata = saved]
       /\ metadata_file' = saved
       /\ UNCHANGED InstancesFrame

\* delete_template on instance i
InstanceDelete(i, template_name, user_id) ==
    LET md == instances[i]._metadata
        template_info == GetTemplateInfo(md, template_name, user_id)
        found == {k \in 1..Len(md) :
                     /\ md[k].info.template_name = template_name
                     /\ (user_id = None \/ md[k].info.user_id = user_id)}
        kept == IF found = {} THEN md ELSE DelIndex(md, SetMin(found))
    IN /\ instances[i].constructed
       /\ template_info # <<>>
       /\ files' = files \ {template_info[1].file_path}
       /\ instances' = [instances EXCEPT ![i]._metadata = kept]
       /\ metadata_file' = kept
       /\ UNCHANGED InstancesFrame

NextInstances ==
    \/ \E i \in Instances : Construct(i)
    \/ \E i \in Instances, n \in InstanceNames, ft \in FileTypes, u \in InstanceCallers :
           InstanceSave(i, n, ft, u)
    \/ \E i \in Instances, n \in InstanceNames, u \in InstanceCallers : InstanceDelete(i, n, u)

SpecInstances == InitInstances /\ [][NextInstances]_vars

\* C28: with several instances on one storage directory, every template
\* saved through any instance stays in the metadata file: a save or a
\* delete by one instance drops no other template from the file.
C28_SavedStaysOnDisk ==
    [][\A i \in Instances, n \in InstanceNames, u \in InstanceCallers :
          /\ (\E ft \in FileTypes : InstanceSave(i, n, ft, u)) =>
                 \A e \in Entries(metadata_file) :
                     e.key # TemplateKey(n, u) => e \in Entries(metadata_file')
          /\ InstanceDelete(i, n, u) =>
                 \A e \in Entries(metadata_file) :
                     e.info.template_name # n => e \in Entries(metadata_file')]_vars

\* the part of C28 that holds: an instance whose dictionary is what the
\* file holds drops nothing else from the file
C28_CurrentInstanceKeeps ==
    [][\A i \in Instances, n \in InstanceNames, u \in InstanceCallers :
          (/\ instances[i]._metadata = metadata_file
           /\ \E ft \in FileTypes : InstanceSave(i, n, ft, u)) =>
              \A e \in Entries(metadata_file) :
                  e.key # TemplateKey(n, u) => e \in Entries(metadata_file')]_vars

\* ------------------------------------------------------------------------
\* PDFGenerator: generate_pdf calls on one instance
\* ------------------------------------------------------------------------
\* font names as a template extractor reports them: the name, and after a
\* comma what the extractor appended to it
FontNames == {<<"Times-Roman">>, <<"Arial">>, <<"Courier", ",", "Bold">>}

\* the names ReportLab knows, each mapped to itself
common_fonts == {<<"Times-Roman">>, <<"Times-Bold">>, <<"Helvetica">>, <<"Helvetica-Bold">>,
                 <<"Courier">>, <<"Courier-Bold">>}

\* font_name.split(",")[0].strip() if "," in font_name else font_name
Normalized(font_name) ==
    IF \E k \in 1..Len(font_name) : font_name[k] = ","
    THEN Strip(Split(font_name, ",")[1])
    ELSE font_name

\* _register_template_fonts: the mapping after the fonts of a template
\* are registered
RegisterTemplateFonts(registered, fonts) ==
    [n \in DOMAIN registered \cup fonts |->
        IF n \in fonts
        THEN (IF Normalized(n) \in common_fonts THEN Normalized(n) ELSE <<"Helvetica">>)
        ELSE registered[n]]

\* self._registered_fonts.get(name, default)
GetFont(registered, name, default) ==
    IF name \in DOMAIN registered THEN registered[name] ELSE default

\* the fontName of the custom style and of the header style that
\* _parse_content_with_formatting builds for the template
StyleFonts(registered, template_metadata) ==
    [style |-> GetFont(registered, template_metadata.style_font, <<"Helvetica">>),
     header |-> GetFont(registered, template_metadata.header_font, <<"Helvetica-Bold">>)]

\* template_metadata: the fonts found in the template, the font of its
\* style and the font of its header
TemplateMetadata ==
    [fonts : SUBSET FontNames, style_font : FontNames, header_font : FontNames]

\* the mapping of a new PDFGenerator: self._registered_fonts = {}
NoFonts == [n \in {} |-> n]

InitPdf ==
    /\ pc = "pdf"
    /\ _registered_fonts = NoFonts
    /\ generated = <<>>
    /\ raw = <<>>
    /\ sanitized_text = <<>>
    /\ line_no = 1
    /\ structured_lines = <<>>
    /\ in_code_block = FALSE
    /\ code_block_content = <<>>
    /\ content = <<>>
    /\ html = HtmlInit
    /\ docx = DocxInit
    /\ CleanerIdle /\ CallsIdle /\ ManagerIdle /\ ClassifierIdle /\ InstancesIdle

generate_pdf(template_metadata) ==
    /\ _registered_fonts' = RegisterTemplateFonts(_registered_fonts, template_metadata.fonts)
    /\ generated' = [template_metadata |-> template_metadata,
                     fonts |-> StyleFonts(_registered_fonts', template_metadata)]
    /\ UNCHANGED <<pc, conversion_vars, cleaner_vars, calls, manager_vars, classifier_vars,
                   instances>>

NextPdf == \E template_metadata \in TemplateMetadata : generate_pdf(template_metadata)

SpecPdf == InitPdf /\ [][NextPdf]_vars

\* what a new instance gives the styles of a call
FreshFonts(template_metadata) ==
    StyleFonts(RegisterTemplateFonts(NoFonts, template_metadata.fonts), template_metadata)

\* C30: a long-lived PDFGenerator carries no state between calls: the
\* fonts of the styles of a generate_pdf call depend on that call's
\* template_metadata only, not on the templates of earlier calls.
C30_NoCarriedFonts ==
    generated # <<>> => generated.fonts = FreshFonts(generated.template_metadata)

\* the part of C30 that holds: a font the call's own template registers
\* is mapped the same way whatever came before
C30_OwnFontsMappedAlike ==
    generated # <<>> =>
        \A n \in generated.template_metadata.fonts :
            _registered_fonts[n] = RegisterTemplateFonts(NoFonts, {n})[n]

====
